---- MODULE Spec2Model ----
(***************************************************************************)
(* A model of NottorneyClient (src/ankihub/nottorney_client.py): the       *)
(* transport (_send_request) with its retry loop, the deck-update          *)
(* reconciler (get_deck_updates driving the generator                      *)
(* _get_deck_updates_inner), and the client operations around the token.   *)
(*                                                                         *)
(* Python's None is the empty tuple <<>> and a present value x is <<x>>,   *)
(* so that an optional value is always a sequence.                         *)
(***************************************************************************)
EXTENDS Integers, Sequences, FiniteSets, TLC

(* ------------------------------ bounds --------------------------------- *)

\* page requests of one sync run (the last page the service may send is final)
MaxPages == 3
\* note identities (ah_nid) are 1..MaxNid
MaxNid == 2
\* watermarks (latest_update, since) are 1..MaxT
MaxT == 2
\* notes on one delta page
MaxPageNotes == 1
\* rows of one snapshot CSV
MaxCsvNotes == 2
\* protection metadata values are 0..MaxProt (0 is the empty mapping / list)
MaxProt == 1
\* page requests of one paged operation when operations run next to login
\* and signout
MaxClientPages == 2
\* login and signout calls that interleave with one operation
MaxTokenWrites == 2
\* media names passed to one download_media call
MaxMedia == 2
MaxMergeNid == 3
MaxMergeNotes == 2
MaxMergeChunks == 3
MaxCalls == 2
MaxRunPages == 2

(* ------------------------- program constants --------------------------- *)

\* variant: one attempt more than the source makes
FourRetries == 3 + 1

MAX_RETRIES == 3
RETRY_DELAY == 2
DECK_UPDATE_PAGE_SIZE == 2000
DECK_EXTENSION_UPDATE_PAGE_SIZE == 2000
DECK_MEDIA_UPDATE_PAGE_SIZE == 2000

(* ------------------------------ values --------------------------------- *)

None == <<>>
Some(x) == <<x>>

\* Python truthiness of an optional string or optional value: None and ""
\* are falsy.
Truthy(opt) == opt # None /\ opt[1] # ""

Nids == 1 .. MaxNid
Times == 1 .. MaxT
OptTimes == {None} \cup {Some(t) : t \in Times}
ProtVals == 0 .. MaxProt
\* the protection metadata one page carries
ProtPairs == {[fields |-> p, tags |-> p] : p \in ProtVals}

\* since.strftime(ANKIHUB_DATETIME_FORMAT_STR) if since else None: the
\* formatted watermark is a string, written here as a tagged record.
Formatted(since) == IF since # None THEN Some([fmt |-> since[1]]) ELSE None

Max2(a, b) == IF a >= b THEN a ELSE b

\* all sequences over S of length at most n
RECURSIVE SeqsUpTo(_, _)
SeqsUpTo(S, n) ==
    IF n = 0 THEN {<<>>}
    ELSE LET shorter == SeqsUpTo(S, n - 1)
         IN  shorter \cup {Append(s, x) : s \in shorter, x \in S}

\* the set of elements of a sequence
Range(s) == {s[i] : i \in 1 .. Len(s)}

(* ------------------------------- URLs ---------------------------------- *)

\* A URL or URL suffix is a sequence of segments; "/api" is one segment.
\* The cursors the service sends as `next`.
\* CursorA is a full URL in which "/api" occurs twice, CursorB a bare suffix.
CursorA == <<"https://host", "/api", "/decks/X", "/api", "/updates?cursor=a">>
CursorB == <<"/decks/X/updates?cursor=b">>
NextValues == {None, Some(CursorA), Some(CursorB)}

\* the index of the first "/api" of a URL that has one
FirstApi(url) == CHOOSE i \in 1 .. Len(url) :
                    /\ url[i] = "/api"
                    /\ \A j \in 1 .. (i - 1) : url[j] # "/api"

\* variant: the cursor is used as the service sent it
KeepWholeUrl(next) == next

\* data.get("next") followed by the rewrite of lines 533-537: when the
\* value contains "/api", what follows its first occurrence.
RewriteNext(next) ==
    IF next = None \/ next[1] = <<>> THEN next
    ELSE IF \E i \in 1 .. Len(next[1]) : next[1][i] = "/api"
         THEN Some(SubSeq(next[1], FirstApi(next[1]) + 1, Len(next[1])))
         ELSE next

DeckUpdatesSuffix == <<"/decks/X/updates">>

\* self.api_url (line 102) and the host of the signed URL that
\* get_download_url returns
ApiUrl == "https://api"
DownloadUrl == "https://signed"

(* ------------------------------- state --------------------------------- *)

VARIABLES
    \* ---- client (NottorneyClient.__init__) ----
    token,                 \* self.token: None or Some(string)
    s3_bucket_url,         \* self.s3_bucket_url: None or Some(string)
    \* ---- transport: one activation of _send_request ----
    tpc,                   \* "idle" | "attempt" | "returned" | "raised"
    treq,                  \* the request built by lines 127-139
    attempt,               \* the loop variable of line 143
    last_exception,        \* line 142 / 158
    response,              \* what line 156 returns
    texc,                  \* the exception that leaves _send_request
    attempts_log,          \* history: outcome of each requests.request call
    sleeps,                \* history: the time.sleep calls of this request
    \* ---- one get_deck_updates run ----
    pc,                    \* where the run is
    should_cancel,         \* whether a should_cancel callback was passed
    notes_data_from_csv,
    notes_data_from_json,
    latest_update,
    protected_fields,
    protected_tags,
    chunk,                 \* the chunk the generator has just yielded
    outcome,               \* "running" | "merged" | "cancelled" | "error"
    error,                 \* the exception a failed run raises
    result,                \* None, or Some(DeckUpdates)
    \* ---- the active frame of _get_deck_updates_inner ----
    params,
    url_suffix,
    first_request,
    notes_count,
    data,                  \* response.json() of the current page
    depth,                 \* recursion depth of the active frame
    suspended,             \* url_suffix of each frame waiting in its
                           \* `yield from`, the outermost first
    runs,                  \* the locals of each of two concurrent runs
    download,              \* the locals of _download_deck_from_url while
                           \* it reads the body of the snapshot
    \* ---- history of the run ----
    pages,                 \* page requests issued so far
    stream_pages,          \* page requests the active stream has issued
    chunks,                \* every chunk the generator yielded, in order
    cancel_seen,           \* should_cancel() has returned true
    cancel_calls,          \* calls of should_cancel so far
    progress_log,          \* the arguments updates_download_progress_cb was
                           \* called with, in order, when it is set
    \* ---- the operation the host is running ----
    op,                    \* its name
    opc,                   \* "start" | "created" | "request" | "direct"
                           \* | "yielded" | "done"
    op_outcome,            \* "running" | "returned" | "raised" | "closed"
    op_error,
    step,                  \* which request of the operation is in flight
    dreq,                  \* a request sent by requests.get / requests.post
    downloaded_count,      \* download_media, line 870
    local_media_dir_path_cb,   \* self.local_media_dir_path_cb is set
    page_limit,            \* the page the service sends as its final one
    \* ---- login and signout, called from another thread ----
    login_pc,              \* "idle" | "sent"
    login_status,          \* the status code the latest login call was
                           \* answered with, 0 when it raised or none ended
    login_req,             \* the request of line 196 while it is in flight
    token_writes,          \* login and signout calls so far
    \* ---- history of the operation ----
    call,                  \* how the call of the operation went
    http_issued            \* the operation has issued an HTTP request

clientVars == <<token, s3_bucket_url>>
transportVars == <<tpc, treq, attempt, last_exception, response, texc,
                   attempts_log, sleeps>>
runVars == <<pc, should_cancel, notes_data_from_csv, notes_data_from_json,
             latest_update, protected_fields, protected_tags, chunk,
             outcome, error, result, cancel_seen, cancel_calls, progress_log>>
frameVars == <<params, url_suffix, first_request, notes_count, data, depth,
               suspended, runs, download, pages, stream_pages, chunks>>
opVars == <<op, opc, op_outcome, op_error, step, dreq, downloaded_count,
           local_media_dir_path_cb, page_limit>>
loginVars == <<login_pc, login_status, login_req, token_writes>>
vars == <<clientVars, transportVars, runVars, frameVars, opVars, loginVars,
          call, http_issued>>

(* ----------------------------- transport ------------------------------- *)

NoRequest == [method |-> "", api |-> "", base |-> "", suffix |-> <<>>,
              params |-> None, authorization |-> None, long |-> FALSE,
              page |-> 0]
NoData == [next |-> None, external_notes_url |-> None, has_notes |-> FALSE,
           notes |-> <<>>, latest_update |-> None, protected_fields |-> 0,
           protected_tags |-> 0]
NoResponse == [status_code |-> 0]

\* variant: the header is attached whatever include_auth says
GetHeadersIgnoringFlag(include_auth, tok) ==
    IF Truthy(tok) THEN Some(<<"Bearer", tok[1]>>) ELSE None

\* _get_headers: the Authorization header, None when it is not set.
GetHeaders(include_auth, tok) ==
    IF include_auth /\ Truthy(tok) THEN Some(<<"Bearer", tok[1]>>) ELSE None

\* variant: the exception of the first attempt is raised
RaiseFirst(log) == log[1]

\* the bare `raise` of line 169 re-raises the exception being handled,
\* which is the one of the attempt that has just failed
Reraise(log) == log[Len(log)]

\* variant: every exception is caught and retried
EveryException == {"ConnectionError", "Timeout", "OtherRequestException"}

\* except (ConnectionError, Timeout)
Transient == {"ConnectionError", "Timeout"}
\* any other exception requests.request can raise
NonTransient == {"OtherRequestException"}

\* variant: the URL is built from whatever self.s3_bucket_url holds
BucketNeverMissing(api, bucket) == FALSE

\* lines 129-131: `elif api == API.S3: if not self.s3_bucket_url`
BucketMissing(api, bucket) == api = "S3" /\ ~Truthy(bucket)

NotAuthenticated == "ValueError: Not authenticated"

\* variant: a request to the service API is refused without a token
TokenRequiredAtSend(api, tok) == api = "NOTTORNEY" /\ ~Truthy(tok)

\* lines 127-136: _send_request reads self.token in _get_headers only and
\* never raises for its absence
TokenCheckedAtSend(api, tok) == FALSE

\* _send_request up to the retry loop (lines 127-142): builds the URL and
\* the headers, or raises ValueError for S3 without a bucket URL.
BeginSend(method, api, suffix, prms, long, page) ==
    /\ attempt' = 0
    /\ last_exception' = None
    /\ response' = NoResponse
    /\ attempts_log' = <<>>
    /\ sleeps' = <<>>
    /\ IF BucketMissing(api, s3_bucket_url)
       THEN /\ tpc' = "raised"
            /\ texc' = "ValueError: S3 bucket URL not configured"
            /\ treq' = NoRequest
       ELSE IF TokenCheckedAtSend(api, token)
       THEN /\ tpc' = "raised"
            /\ texc' = NotAuthenticated
            /\ treq' = NoRequest
       ELSE /\ tpc' = "attempt"
            /\ texc' = ""
            /\ treq' = [method |-> method, api |-> api,
                        base |-> IF api = "NOTTORNEY" THEN ApiUrl
                                 ELSE IF s3_bucket_url # None
                                 THEN s3_bucket_url[1] ELSE "None",
                        suffix |-> suffix, params |-> prms,
                        authorization |->
                            GetHeaders(api = "NOTTORNEY", token),
                        long |-> long, page |-> page]

\* _send_request has returned to its caller: its frame is gone
EndSend ==
    /\ tpc' = "idle"
    /\ treq' = NoRequest
    /\ attempt' = 0
    /\ last_exception' = None
    /\ response' = NoResponse
    /\ texc' = ""
    /\ attempts_log' = <<>>
    /\ sleeps' = <<>>

\* what the services can answer to the request in flight
PageNotes(k) ==
    {[i \in 1 .. Len(s) |-> [ah_nid |-> s[i], rev |-> k]] :
        s \in SeqsUpTo(Nids, MaxPageNotes)}
NoRepeats(s) == \A i, j \in 1 .. Len(s) : s[i] = s[j] => i = j
CsvNotes(k) ==
    {[i \in 1 .. Len(s) |-> [ah_nid |-> s[i], rev |-> k]] :
        s \in {t \in SeqsUpTo(Nids, MaxCsvNotes) : NoRepeats(t)}}

DeltaPages(k, final) ==
    {[next |-> nx, external_notes_url |-> None, has_notes |-> TRUE,
      notes |-> ns, latest_update |-> lu, protected_fields |-> pr.fields,
      protected_tags |-> pr.tags] :
        nx \in (IF final THEN {None} ELSE NextValues), ns \in PageNotes(k),
        lu \in OptTimes, pr \in ProtPairs}
SnapshotPages(k, final) ==
    IF final THEN {}
    ELSE {[next |-> nx, external_notes_url |-> Some("u"), has_notes |-> FALSE,
           notes |-> <<>>, latest_update |-> lu, protected_fields |-> pr.fields,
           protected_tags |-> pr.tags] :
            nx \in NextValues, lu \in OptTimes, pr \in ProtPairs}
\* a 200 page with neither notes nor external_notes_url
MalformedPages == {NoData}

\* response.json() of a deck-updates page with status 200: the k-th page
\* request of the run
PageBodies(k) ==
    DeltaPages(k, k >= page_limit) \cup SnapshotPages(k, k >= page_limit)
        \cup MalformedPages

\* the status codes the services answer with
PagedOps == {"get_deck_updates", "get_deck_media_updates",
             "get_deck_extension_updates"}
StatusCodes(req) ==
    IF op \in PagedOps
    THEN IF req.api = "S3" THEN {200, 403} ELSE {200, 500}
    ELSE IF req.api = "S3" THEN {200, 204, 403}
         ELSE {200, 201, 204, 404, 500}

\* line 145-156: requests.request returns a response, of any status
AttemptReturns ==
    /\ tpc = "attempt"
    /\ \E sc \in StatusCodes(treq) :
        /\ response' = [status_code |-> sc]
        /\ tpc' = "returned"
        /\ attempts_log' = Append(attempts_log, "Response")
    /\ UNCHANGED <<treq, attempt, last_exception, texc, sleeps>>
    /\ http_issued' = TRUE
    /\ UNCHANGED <<clientVars, runVars, frameVars, opVars, loginVars, call>>

\* variant: a sleep follows the last attempt too
SleepAfterEveryFailure(a) == TRUE

\* line 159: whether a failed attempt is followed by a sleep
ShouldRetry(a) == a < MAX_RETRIES - 1

\* lines 157-174: ConnectionError or Timeout.  After the sleep the for
\* loop of line 143 goes on to the next attempt, or, when the range is
\* used up, falls through to line 173.
AttemptFailsTransient ==
    /\ tpc = "attempt"
    /\ \E e \in Transient :
        /\ last_exception' = Some(e)
        /\ attempts_log' = Append(attempts_log, e)
        /\ IF ShouldRetry(attempt)
           THEN /\ sleeps' = Append(sleeps, [after |-> attempt + 1,
                                             secs |-> RETRY_DELAY])
                /\ IF attempt + 1 < MAX_RETRIES
                   THEN /\ attempt' = attempt + 1
                        /\ UNCHANGED <<tpc, texc>>
                   ELSE /\ tpc' = "raised"
                        /\ texc' = last_exception'[1]
                        /\ UNCHANGED attempt
           ELSE /\ tpc' = "raised"
                /\ texc' = Reraise(attempts_log')
                /\ UNCHANGED <<attempt, sleeps>>
    /\ UNCHANGED <<treq, response>>
    /\ http_issued' = TRUE
    /\ UNCHANGED <<clientVars, runVars, frameVars, opVars, loginVars, call>>

\* any other exception is not caught by line 157
AttemptFailsOther ==
    /\ tpc = "attempt"
    /\ \E e \in NonTransient :
        /\ texc' = e
        /\ attempts_log' = Append(attempts_log, e)
    /\ tpc' = "raised"
    /\ UNCHANGED <<treq, attempt, last_exception, response, sleeps>>
    /\ http_issued' = TRUE
    /\ UNCHANGED <<clientVars, runVars, frameVars, opVars, loginVars, call>>

(* ------------------------ get_deck_updates ----------------------------- *)

NoError == [kind |-> "", status_code |-> 0]
NoCall == [made |-> FALSE, op |-> "", token_absent |-> FALSE, raised |-> "",
           earlier |-> 0]
Err(kind, status) == [kind |-> kind, status_code |-> status]
NoChunk == [notes |-> <<>>, latest_update |-> None, protected_fields |-> 0,
            protected_tags |-> 0, from_csv |-> FALSE]

\* two calls of get_deck_updates that are active at once, and the locals
\* of a call before it has run (lines 454-458 and 511-518)
Runs == 1 .. 2
\* _download_deck_from_url before its body is read
NoDownload == [pc |-> "start", progress_cb |-> FALSE, total_size |-> 0,
               chunk_size |-> 0, i |-> 0, unread |-> 0, content |-> 0,
               reads |-> <<>>, percents |-> <<>>]

NoRun == [pc |-> "start", chunks |-> <<>>, outcome |-> "running",
          error |-> NoError, result |-> None, notes_data_from_csv |-> <<>>,
          notes_data_from_json |-> <<>>, latest_update |-> None,
          protected_fields |-> 0, protected_tags |-> 0, url_suffix |-> None,
          first_request |-> TRUE, notes_count |-> 0]

\* the arguments a caller passes as `since`
SinceArgs == {None, Some(1)}

\* variant: the chunk's latest_update replaces the run's
LastWatermark(mine, theirs) == theirs

\* variant: a chunk without latest_update counts as the start of time
EpochWatermark(mine, theirs) ==
    IF mine # None THEN Some(IF theirs[1] >= mine[1] THEN theirs[1]
                             ELSE mine[1])
    ELSE IF theirs = None THEN Some(0) ELSE theirs

\* max(chunk.latest_update, latest_update) if latest_update else
\* chunk.latest_update (line 479), for operands max() can compare
NextWatermark(mine, theirs) ==
    IF mine # None THEN Some(Max2(theirs[1], mine[1])) ELSE theirs

\* variant: metadata already held is kept
FirstNonEmptyProtection(mine, theirs) == IF mine # 0 THEN mine ELSE theirs

\* lines 480-481: the chunk's protection metadata replaces the run's
NextProtection(mine, theirs) == theirs

\* variant: the generator is resumed once more and reports the page
ResumedOnCancel(log, count) == Append(log, count)

\* line 469: `return None` leaves the for statement with the generator
\* suspended at its yield (line 567); lines 569-574 do not run for the
\* chunk, and closing the generator runs nothing of its body
ClosedOnCancel(log, count) == log

\* variant: a chunk without notes is applied like any other
NeverSkips(c) == FALSE

\* lines 471-472: `if not chunk.notes: continue`
SkipsChunk(c) == c.notes = <<>>

\* variant: the snapshot notes are gathered as the delta notes are
ExtendSnapshot(held, notes) == held \o notes

\* notes_data_from_csv = chunk.notes (line 475)
AssignSnapshot(held, notes) == notes

\* variant: the notes of the chunk replace the delta notes held
ReplaceNotes(held, notes) == notes

\* notes_data_from_json.extend(chunk.notes) (line 477)
ExtendNotes(held, notes) == held \o notes

\* variant: the snapshot notes are not filtered
AllCsvNotes(csv, json) == csv

\* lines 484-488
FilteredCsv(csv, json) ==
    LET ah_nids_from_json == {n.ah_nid : n \in Range(json)}
    IN  SelectSeq(csv, LAMBDA n : n.ah_nid \notin ah_nids_from_json)

\* variant: the snapshot remainder comes first
SnapshotFirst(json, csv, lu, pf, pt) ==
    [notes |-> SelectSeq(csv, LAMBDA n :
                            \A i \in 1 .. Len(json) :
                                json[i].ah_nid # n.ah_nid) \o json,
     latest_update |-> lu, protected_fields |-> pf, protected_tags |-> pt]

\* lines 488-495
DeckUpdates(json, csv, lu, pf, pt) ==
    [notes |-> json \o FilteredCsv(csv, json), latest_update |-> lu,
     protected_fields |-> pf, protected_tags |-> pt]

\* variant: cancellation leaves the loop and what was accumulated is merged
BreakOnCancel(json, csv, lu, pf, pt) ==
    [outcome |-> "merged", result |-> Some(DeckUpdates(json, csv, lu, pf, pt))]

\* variant: cancellation hands back what was accumulated
PartialOnCancel(json, csv, lu, pf, pt) ==
    [outcome |-> "cancelled",
     result |-> Some([notes |-> json, latest_update |-> lu,
                      protected_fields |-> pf, protected_tags |-> pt])]

\* line 469: return None
ReturnOnCancel(json, csv, lu, pf, pt) ==
    [outcome |-> "cancelled", result |-> None]

\* an exception leaves get_deck_updates
Fail(e) ==
    /\ pc' = "done"
    /\ outcome' = "error"
    /\ error' = e
    /\ UNCHANGED result

\* one iteration of the while loop of _get_deck_updates_inner up to the
\* call of _send_request (lines 520-527)
\* variant: the query parameters go with every page request
AlwaysParams(prms, first) == Some(prms)

\* params=params if first_request else None (line 525)
RequestParams(prms, first) == IF first THEN Some(prms) ELSE None

\* the nth request of its stream
FetchPage(suffix, prms, first, nth) ==
    /\ pages' = pages + 1
    /\ stream_pages' = nth
    /\ BeginSend("GET", "NOTTORNEY", suffix, RequestParams(prms, first),
                 TRUE, pages + 1)

\* lines 511-518: a fresh frame of the generator.  The dict is read only
\* while first_request holds (line 525); once first_request is False the
\* model keeps NoParams in its place.
NoParams == [since |-> None, size |-> 0, full_deck |-> FALSE]

InitialParams(since, full) ==
    [since |-> Formatted(since), size |-> DECK_UPDATE_PAGE_SIZE,
     full_deck |-> full]

\* variant: should_cancel is consulted before the first chunk is asked for
CancelCheckedAtCall(cb) == cb

\* lines 454-467: nothing between the token check and the for statement
\* consults should_cancel
CancelCheckedBeforeFetch(cb) == FALSE

\* get_deck_updates is called (lines 451-467); the for statement asks the
\* generator for its first chunk, which runs it up to its first request
GetDeckUpdatesCall ==
    /\ op = "get_deck_updates"
    /\ pc = "start"
    /\ call' = [made |-> TRUE, op |-> op, token_absent |-> ~Truthy(token),
                raised |-> IF ~Truthy(token) THEN NotAuthenticated ELSE "",
                earlier |-> call.earlier]
    /\ \E since \in SinceArgs, full \in BOOLEAN, cb \in BOOLEAN :
        /\ full = (since = None)
        /\ should_cancel' = cb
        /\ IF ~Truthy(token)
           THEN /\ Fail(Err(NotAuthenticated, 0))
                /\ UNCHANGED <<transportVars, frameVars, cancel_seen,
                               cancel_calls>>
           ELSE IF CancelCheckedBeforeFetch(cb)
           THEN /\ cancel_seen' = TRUE
                /\ cancel_calls' = cancel_calls + 1
                /\ pc' = "done"
                /\ outcome' = "cancelled"
                /\ UNCHANGED <<error, result, transportVars, frameVars>>
           ELSE /\ params' = InitialParams(since, full)
                /\ url_suffix' = Some(DeckUpdatesSuffix)
                /\ notes_count' = 0
                /\ first_request' = TRUE
                /\ FetchPage(DeckUpdatesSuffix, params', first_request', 1)
                /\ pc' = "page"
                /\ UNCHANGED <<outcome, error, result, data, depth,
                               suspended, runs, download, chunks,
                               cancel_seen, cancel_calls>>
    /\ UNCHANGED <<clientVars, notes_data_from_csv, notes_data_from_json,
                   latest_update, protected_fields, protected_tags, chunk,
                   progress_log, opVars, loginVars, http_issued>>

\* _send_request raised: nothing in the generator or in get_deck_updates
\* catches it
RequestRaised ==
    /\ pc \in {"page", "csv"}
    /\ tpc = "raised"
    /\ Fail(Err(texc, 0))
    /\ EndSend
    /\ UNCHANGED <<clientVars, should_cancel, notes_data_from_csv,
                   notes_data_from_json, latest_update, protected_fields,
                   protected_tags, chunk, cancel_seen, cancel_calls, progress_log, frameVars>>
    /\ UNCHANGED <<opVars, loginVars, call, http_issued>>

\* variant: only the stream of the call takes the snapshot branch
SnapshotOnlyAtTop(json, d) == json.external_notes_url # None /\ d = 0

\* line 539, `if data.get("external_notes_url")`, the same in every frame
IsSnapshotPage(json, d) == Truthy(json.external_notes_url)

\* variant: a page without notes is taken as a page of no notes
NeverMissing(json) == FALSE

\* data.get("notes") is None (line 557)
NotesMissing(json) == ~json.has_notes

\* variant: only a server error stops the run
ServerError(resp) == resp.status_code >= 500

\* response.status_code != 200 (lines 529 and 582)
NotOk(resp) == resp.status_code # 200

\* the page request returned (lines 529-567); the body is read by
\* response.json() at line 532
PageReturned ==
    /\ pc = "page"
    /\ tpc = "returned"
    /\ IF NotOk(response)
       THEN /\ Fail(Err("NottorneyHTTPError", response.status_code))
            /\ EndSend
            /\ UNCHANGED <<chunk, frameVars>>
       ELSE \E json \in PageBodies(pages) :
            /\ data' = json
            /\ url_suffix' = RewriteNext(json.next)
            /\ IF IsSnapshotPage(json, depth)
               THEN \* _download_deck_from_url, line 580
                    /\ BeginSend("GET", "S3", <<json.external_notes_url[1]>>,
                                 None, TRUE, pages)
                    /\ pc' = "csv"
                    /\ UNCHANGED <<chunk, chunks, outcome, error, result>>
               ELSE IF NotesMissing(json)
               THEN /\ Fail(Err("ValueError: No notes in the response", 0))
                    /\ EndSend
                    /\ UNCHANGED <<chunk, chunks>>
               ELSE /\ chunk' = [notes |-> json.notes,
                                 latest_update |-> json.latest_update,
                                 protected_fields |-> json.protected_fields,
                                 protected_tags |-> json.protected_tags,
                                 from_csv |-> FALSE]
                    /\ chunks' = Append(chunks, chunk')
                    /\ pc' = "yielded"
                    /\ EndSend
                    /\ UNCHANGED <<outcome, error, result>>
            /\ UNCHANGED <<params, first_request, notes_count, depth,
                           suspended, runs, download, pages, stream_pages>>
    /\ UNCHANGED <<clientVars, should_cancel, notes_data_from_csv,
                   notes_data_from_json, latest_update, protected_fields,
                   protected_tags, cancel_seen, cancel_calls, progress_log>>
    /\ UNCHANGED <<opVars, loginVars, call, http_issued>>

\* the snapshot download returned (lines 582-610 and 544-546); the body
\* is read and parsed by lines 585-608
CsvReturned ==
    /\ pc = "csv"
    /\ tpc = "returned"
    /\ EndSend
    /\ IF NotOk(response)
       THEN /\ Fail(Err("NottorneyHTTPError", response.status_code))
            /\ UNCHANGED <<chunk, chunks>>
       ELSE \E rows \in CsvNotes(pages) :
            /\ chunk' = [notes |-> rows,
                         latest_update |-> data.latest_update,
                         protected_fields |-> data.protected_fields,
                         protected_tags |-> data.protected_tags,
                         from_csv |-> TRUE]
            /\ chunks' = Append(chunks, chunk')
            /\ pc' = "yielded"
            /\ UNCHANGED <<outcome, error, result>>
    /\ UNCHANGED <<clientVars, should_cancel, notes_data_from_csv,
                   notes_data_from_json, latest_update, protected_fields,
                   protected_tags, cancel_seen, cancel_calls, progress_log, params, url_suffix,
                   first_request, notes_count, data, depth, suspended, runs, download,
                   pages, stream_pages>>
    /\ UNCHANGED <<opVars, loginVars, call, http_issued>>

\* variant: the recursion starts over from the beginning of time
RecursionFromStart(c) == [since |-> None, download_full_deck |-> FALSE]

\* lines 549-552: the arguments of the recursive call
RecursionArgs(c) ==
    [since |-> c.latest_update, download_full_deck |-> FALSE]

\* variant: the callback is asked before and after the chunk is applied
ConsultsTwice(cb) == IF cb THEN 2 ELSE 0

\* line 468, `if should_cancel and should_cancel()`: the calls of the
\* callback the loop body makes for one chunk
Consults(cb) == IF cb THEN 1 ELSE 0

\* variant: the frame that delegated goes on with its own loop
ContinueOuterLoop(frames) ==
    IF frames = <<>> THEN None ELSE frames[Len(frames)]

\* line 556: once the recursive generator is exhausted the frame that
\* delegated to it returns; the url_suffix it holds is not read again
AfterRecursion(frames) == None

\* The body of the for loop of get_deck_updates for the chunk just yielded
\* (lines 468-481), and then the generator running on to its next request:
\* after a delta chunk lines 569-574 and 520-527, after the snapshot chunk
\* the fresh frame of lines 549-555 and 511-527.  When the generator is
\* exhausted the for loop ends and lines 483-495 merge and return.
ConsumeChunk ==
    /\ pc = "yielded"
    /\ UNCHANGED <<runs, download>>
    /\ cancel_calls' = cancel_calls + Consults(should_cancel)
    /\ \E answer \in BOOLEAN :
        LET applies == ~SkipsChunk(chunk)
            csv1 == IF applies /\ chunk.from_csv
                    THEN AssignSnapshot(notes_data_from_csv, chunk.notes)
                    ELSE notes_data_from_csv
            json1 == IF applies /\ ~chunk.from_csv
                     THEN ExtendNotes(notes_data_from_json, chunk.notes)
                     ELSE notes_data_from_json
            lu1 == IF applies
                   THEN NextWatermark(latest_update, chunk.latest_update)
                   ELSE latest_update
            pf1 == IF applies
                   THEN NextProtection(protected_fields,
                                       chunk.protected_fields)
                   ELSE protected_fields
            pt1 == IF applies
                   THEN NextProtection(protected_tags, chunk.protected_tags)
                   ELSE protected_tags
        IN
        IF should_cancel /\ answer
        THEN LET r == ReturnOnCancel(notes_data_from_json,
                                     notes_data_from_csv, latest_update,
                                     protected_fields, protected_tags)
             IN  /\ cancel_seen' = TRUE
                 /\ pc' = "done"
                 /\ outcome' = r.outcome
                 /\ result' = r.result
                 /\ progress_log' =
                        ClosedOnCancel(progress_log,
                                       notes_count + Len(chunk.notes))
                 /\ UNCHANGED <<error, notes_data_from_csv,
                                notes_data_from_json, latest_update,
                                protected_fields, protected_tags,
                                transportVars, frameVars>>
        ELSE IF applies /\ latest_update # None /\ chunk.latest_update = None
        THEN \* line 479: max(None, datetime) raises TypeError
             /\ Fail(Err("TypeError", 0))
             /\ notes_data_from_csv' = csv1
             /\ notes_data_from_json' = json1
             /\ UNCHANGED <<cancel_seen, progress_log, latest_update,
                            protected_fields, protected_tags, transportVars,
                            frameVars>>
        ELSE /\ notes_data_from_csv' = csv1
             /\ notes_data_from_json' = json1
             /\ latest_update' = lu1
             /\ protected_fields' = pf1
             /\ protected_tags' = pt1
             /\ UNCHANGED <<cancel_seen, error, data, chunks>>
             /\ IF chunk.from_csv
                THEN /\ LET args == RecursionArgs(chunk) IN
                        params' = InitialParams(args.since,
                                                args.download_full_deck)
                     /\ url_suffix' = Some(DeckUpdatesSuffix)
                     /\ notes_count' = 0
                     /\ first_request' = TRUE
                     /\ UNCHANGED progress_log
                     /\ depth' = depth + 1
                     /\ suspended' = Append(suspended, url_suffix)
                     /\ FetchPage(DeckUpdatesSuffix, params',
                                  first_request', 1)
                     /\ pc' = "page"
                     /\ UNCHANGED <<outcome, result>>
                ELSE /\ notes_count' = notes_count + Len(chunk.notes)
                     /\ progress_log' = Append(progress_log, notes_count')
                     /\ first_request' = FALSE
                     /\ params' = NoParams
                     /\ UNCHANGED <<url_suffix, depth>>
                     /\ LET outer == AfterRecursion(suspended) IN
                        IF url_suffix # None
                        THEN /\ FetchPage(url_suffix[1], params',
                                          first_request', stream_pages + 1)
                             /\ pc' = "page"
                             /\ UNCHANGED <<outcome, result, suspended>>
                        ELSE IF outer # None
                        THEN /\ FetchPage(outer[1], params', first_request',
                                          stream_pages + 1)
                             /\ suspended' = <<>>
                             /\ pc' = "page"
                             /\ UNCHANGED <<outcome, result>>
                        ELSE /\ result' = Some(DeckUpdates(json1, csv1, lu1,
                                                           pf1, pt1))
                             /\ outcome' = "merged"
                             /\ pc' = "done"
                             /\ UNCHANGED <<transportVars, pages,
                                            stream_pages, suspended>>
    /\ UNCHANGED <<clientVars, should_cancel, chunk>>
    /\ UNCHANGED <<opVars, loginVars, call, http_issued>>

(* ------------------------- client operations --------------------------- *)

\* One request of an operation.  via is "transport" for _send_request and
\* "direct" for a call of requests.get / requests.post; ok is the set of
\* status codes the operation goes on with; swallow holds inside the
\* try / except of download_media.
Req(method, api, suffix, ok) ==
    [method |-> method, api |-> api, via |-> "transport", base |-> "",
     suffix |-> suffix, include_auth |-> api = "NOTTORNEY", ok |-> ok,
     swallow |-> FALSE, long |-> api = "S3"]

DirectReq(method, base, suffix, include_auth, ok) ==
    [method |-> method, api |-> "", via |-> "direct", base |-> base,
     suffix |-> suffix, include_auth |-> include_auth, ok |-> ok,
     swallow |-> FALSE, long |-> FALSE]

\* variant: the request of a file outside the try statement
MediaReqUnguarded(i) ==
    [method |-> "GET", api |-> "S3", via |-> "transport", base |-> "",
     suffix |-> <<"/deck_assets/X/", i>>, include_auth |-> FALSE,
     ok |-> {200}, swallow |-> FALSE, long |-> FALSE]

\* lines 868-893: the request of the i-th name of media_names
MediaReq(i) ==
    [method |-> "GET", api |-> "S3", via |-> "transport", base |-> "",
     suffix |-> <<"/deck_assets/X/", i>>, include_auth |-> FALSE,
     ok |-> {200}, swallow |-> TRUE, long |-> FALSE]

\* variant: a deck the client is not subscribed to is an error
OnlyNoContent == {204}

\* line 392: `if response.status_code not in (204, 404)`
UnsubscribeOk == {204, 404}

\* the requests each operation makes, in order
Script(o) ==
    CASE o = "get_purchased_decks" ->
            <<DirectReq("GET", ApiUrl, <<"/decks">>, TRUE, {200})>>
      [] o = "get_download_url" ->
            <<DirectReq("POST", ApiUrl, <<"/download">>, TRUE, {200})>>
      [] o = "download_deck" ->
            <<DirectReq("POST", ApiUrl, <<"/download">>, TRUE, {200}),
              DirectReq("GET", DownloadUrl, <<>>, FALSE, {200})>>
      [] o = "get_deck_subscriptions" ->
            <<Req("GET", "NOTTORNEY", <<"/decks/subscriptions/">>, {200})>>
      [] o = "subscribe_to_deck" ->
            <<Req("POST", "NOTTORNEY", <<"/decks/subscriptions/">>, {201})>>
      [] o = "unsubscribe_from_deck" ->
            <<Req("DELETE", "NOTTORNEY", <<"/decks/X/subscriptions/">>,
                  UnsubscribeOk)>>
      [] o = "get_protected_fields" ->
            <<Req("GET", "NOTTORNEY", <<"/decks/X/protected-fields/">>,
                  {200, 404})>>
      [] o = "upload_deck" ->
            <<Req("GET", "NOTTORNEY", <<"/decks/generate-presigned-url">>,
                  {200}),
              Req("PUT", "S3", <<"/presigned">>, {200}),
              Req("POST", "NOTTORNEY", <<"/decks/">>, {201})>>
      [] o = "upload_media" ->
            <<Req("GET", "NOTTORNEY", <<"/decks/generate-presigned-url">>,
                  {200}),
              Req("POST", "S3", <<"/presigned">>, {204})>>
      [] o = "download_media" -> [i \in 1 .. MaxMedia |-> MediaReq(i)]

ScriptedOps == {"get_purchased_decks", "get_download_url", "download_deck",
                "get_deck_subscriptions", "subscribe_to_deck",
                "unsubscribe_from_deck", "get_protected_fields",
                "upload_deck", "upload_media", "download_media"}
\* the generator functions
GenOps == {"get_deck_media_updates", "get_deck_extension_updates"}
Ops == ScriptedOps \cup GenOps \cup {"get_deck_updates"}
\* the operations that begin with `if not self.token: raise ValueError`
TokenOps == Ops \ {"download_media"}
MediaDirOps == {"download_media", "upload_media"}
BucketOps == {"get_deck_updates", "download_media", "upload_deck",
              "upload_media"}

\* the checks at the top of an operation, in the order of the source:
\* the error of the first one that fails, "" when all pass
Precheck(o) ==
    IF o \in TokenOps /\ ~Truthy(token) THEN NotAuthenticated
    ELSE IF o \in MediaDirOps /\ ~local_media_dir_path_cb
    THEN "ValueError: local_media_dir_path_cb not configured"
    ELSE IF o = "download_media" /\ ~Truthy(s3_bucket_url)
    THEN "ValueError: S3 bucket URL not configured"
    ELSE ""

\* the operation ends
Finish(how, e) ==
    /\ opc' = "done"
    /\ op_outcome' = how
    /\ op_error' = e
    /\ dreq' = None
    /\ UNCHANGED <<step, http_issued>>

\* the operation sends its i-th request
StartStep(i) ==
    LET st == Script(op)[i]
    IN  /\ step' = i
        /\ UNCHANGED <<op_outcome, op_error>>
        /\ IF st.via = "transport"
           THEN /\ BeginSend(st.method, st.api, st.suffix, None, st.long, 0)
                /\ opc' = "request"
                /\ dreq' = None
                /\ UNCHANGED http_issued
           ELSE /\ EndSend
                /\ opc' = "direct"
                /\ dreq' = Some([method |-> st.method, base |-> st.base,
                                 suffix |-> st.suffix,
                                 authorization |->
                                    GetHeaders(st.include_auth, token)])
                /\ http_issued' = TRUE

\* the request in flight is dealt with: the next one, or the return
Continue ==
    IF step < Len(Script(op))
    THEN StartStep(step + 1)
    ELSE Finish("returned", NoError) /\ EndSend

\* an operation that is not a generator function is called
OpCall ==
    /\ op \in ScriptedOps
    /\ opc = "start"
    /\ call' = [made |-> TRUE, op |-> op, token_absent |-> ~Truthy(token),
                raised |-> Precheck(op),
                earlier |-> call.earlier]
    /\ IF Precheck(op) # ""
       THEN /\ Finish("raised", Err(Precheck(op), 0))
            /\ UNCHANGED transportVars
       ELSE StartStep(1)
    /\ UNCHANGED <<clientVars, runVars, frameVars, loginVars, op,
                   downloaded_count, local_media_dir_path_cb, page_limit>>

\* _send_request returned a response to the operation
OpReturned ==
    /\ op \in ScriptedOps
    /\ opc = "request"
    /\ tpc = "returned"
    /\ LET st == Script(op)[step]
       IN  IF st.swallow
           THEN \* lines 875-887; writing the file may fail (line 888)
                /\ \E written \in BOOLEAN :
                    downloaded_count' =
                        IF response.status_code = 200 /\ written
                        THEN downloaded_count + 1 ELSE downloaded_count
                /\ Continue
           ELSE /\ UNCHANGED downloaded_count
                /\ IF response.status_code \in st.ok
                   THEN Continue
                   ELSE /\ Finish("raised", Err("NottorneyHTTPError",
                                                response.status_code))
                        /\ EndSend
    /\ UNCHANGED <<clientVars, runVars, frameVars, loginVars, call, op,
                   local_media_dir_path_cb, page_limit>>

\* _send_request raised
OpRaised ==
    /\ op \in ScriptedOps \cup GenOps
    /\ opc = "request"
    /\ tpc = "raised"
    /\ IF op \in ScriptedOps /\ Script(op)[step].swallow
       THEN Continue
       ELSE Finish("raised", Err(texc, 0)) /\ EndSend
    /\ UNCHANGED <<clientVars, runVars, frameVars, loginVars, call, op,
                   downloaded_count, local_media_dir_path_cb, page_limit>>

\* the host calls unsubscribe_from_deck once more after a call that
\* returned: a new call, with nothing kept from the one before
OpAgain ==
    /\ op = "unsubscribe_from_deck"
    /\ opc = "done"
    /\ op_outcome = "returned"
    /\ call.earlier < MaxCalls - 1
    /\ opc' = "start"
    /\ op_outcome' = "running"
    /\ step' = 0
    /\ http_issued' = FALSE
    /\ call' = [NoCall EXCEPT !.earlier = call.earlier + 1]
    /\ UNCHANGED <<clientVars, transportVars, runVars, frameVars, loginVars,
                   op, op_error, dreq, downloaded_count,
                   local_media_dir_path_cb, page_limit>>

\* the status codes a directly sent request is answered with
DirectStatusCodes == {200, 403, 500}

\* requests.get / requests.post returned
DirectReturns ==
    /\ opc = "direct"
    /\ \E sc \in DirectStatusCodes :
        IF sc \in Script(op)[step].ok
        THEN Continue
        ELSE Finish("raised", Err("NottorneyHTTPError", sc)) /\ EndSend
    /\ UNCHANGED <<clientVars, runVars, frameVars, loginVars, call, op,
                   downloaded_count, local_media_dir_path_cb, page_limit>>

\* requests.get / requests.post raised: nothing catches it
DirectFails ==
    /\ opc = "direct"
    /\ \E e \in Transient \cup NonTransient : Finish("raised", Err(e, 0))
    /\ UNCHANGED <<clientVars, transportVars, runVars, frameVars, loginVars,
                   call, op, downloaded_count, local_media_dir_path_cb,
                   page_limit>>

(* ----------------- the paged generator operations ---------------------- *)

StreamSuffix(o) ==
    IF o = "get_deck_media_updates" THEN <<"/decks/X/media/list/">>
    ELSE <<"/deck_extensions/X/note_customizations/">>

StreamParams(o, since) ==
    [since |-> Formatted(since),
     size |-> IF o = "get_deck_media_updates"
              THEN DECK_MEDIA_UPDATE_PAGE_SIZE
              ELSE DECK_EXTENSION_UPDATE_PAGE_SIZE]

\* get_deck_media_updates or get_deck_extension_updates is called: the
\* function contains `yield`, so the call only makes a generator object
\* and runs none of the body
GenCall ==
    /\ op \in GenOps
    /\ opc = "start"
    /\ opc' = "created"
    /\ call' = [made |-> TRUE, op |-> op, token_absent |-> ~Truthy(token),
                raised |-> "",
                earlier |-> call.earlier]
    /\ UNCHANGED <<clientVars, transportVars, runVars, frameVars, loginVars,
                   http_issued, op, op_outcome, op_error, step, dreq,
                   downloaded_count, local_media_dir_path_cb, page_limit>>

\* the consumer asks for the next chunk.  The first time the body runs
\* from its top (the token check, then the first request, with the since
\* argument bound at the call); later it resumes after the yield.
GenNext ==
    /\ op \in GenOps
    /\ opc \in {"created", "yielded"}
    /\ IF opc = "created"
       THEN IF ~Truthy(token)
            THEN /\ Finish("raised", Err(NotAuthenticated, 0))
                 /\ UNCHANGED <<transportVars, frameVars>>
            ELSE \E since \in SinceArgs :
                 /\ params' = StreamParams(op, since)
                 /\ url_suffix' = Some(StreamSuffix(op))
                 /\ first_request' = TRUE
                 /\ FetchPage(StreamSuffix(op), params', first_request', 1)
                 /\ opc' = "request"
                 /\ UNCHANGED <<notes_count, data, depth, suspended, runs, download, chunks,
                                op_outcome, op_error, step, dreq,
                                http_issued>>
       ELSE /\ first_request' = FALSE
            /\ params' = NoParams
            /\ UNCHANGED <<url_suffix, notes_count, data, depth, suspended, runs, download,
                           chunks>>
            /\ IF url_suffix # None
               THEN /\ FetchPage(url_suffix[1], params', first_request',
                                 stream_pages + 1)
                    /\ opc' = "request"
                    /\ UNCHANGED <<op_outcome, op_error, step, dreq,
                                   http_issued>>
               ELSE /\ Finish("returned", NoError)
                    /\ UNCHANGED <<transportVars, pages, stream_pages>>
    /\ UNCHANGED <<clientVars, runVars, loginVars, call, op,
                   downloaded_count, local_media_dir_path_cb, page_limit>>

\* variant: the generator goes on to the next page while there is one
Prefetches(nx) == nx = None

\* `yield` (lines 683 and 1011): the generator stops with the chunk until
\* the consumer calls next() again, whatever the cursor
Suspends(nx) == TRUE

\* the page request of a generator returned: the chunk is yielded
GenPageReturned ==
    /\ op \in GenOps
    /\ opc = "request"
    /\ tpc = "returned"
    /\ IF response.status_code # 200
       THEN /\ Finish("raised", Err("NottorneyHTTPError",
                                    response.status_code))
            /\ EndSend
            /\ UNCHANGED <<url_suffix, data, pages, stream_pages>>
       ELSE \E nx \in (IF pages >= page_limit THEN {None} ELSE NextValues) :
            /\ data' = [NoData EXCEPT !.next = nx]
            /\ url_suffix' = RewriteNext(nx)
            /\ IF Suspends(nx)
               THEN /\ opc' = "yielded"
                    /\ EndSend
                    /\ UNCHANGED <<pages, stream_pages>>
               ELSE /\ opc' = "request"
                    /\ FetchPage(url_suffix'[1], NoParams, FALSE,
                                 stream_pages + 1)
            /\ UNCHANGED <<op_outcome, op_error, step, dreq, http_issued>>
    /\ UNCHANGED <<clientVars, runVars, loginVars, call, op,
                   downloaded_count, local_media_dir_path_cb, page_limit,
                   params, first_request, notes_count, depth, suspended, runs, download,
                   chunks>>

\* the consumer drops the generator
GenClose ==
    /\ op \in GenOps
    /\ opc \in {"created", "yielded"}
    /\ Finish("closed", NoError)
    /\ UNCHANGED <<clientVars, transportVars, runVars, frameVars, loginVars,
                   call, op, downloaded_count, local_media_dir_path_cb,
                   page_limit>>

(* --------------------------- login, signout ---------------------------- *)

\* data.get("access_token") of a 200 login response
LoginTokens == {None, Some("t2")}

\* login up to the call of requests.post (line 196)
LoginSend ==
    /\ login_pc = "idle"
    /\ token_writes < MaxTokenWrites
    /\ login_pc' = "sent"
    /\ UNCHANGED login_status
    /\ token_writes' = token_writes + 1
    /\ login_req' = Some([method |-> "POST", base |-> ApiUrl,
                          suffix |-> <<"/login">>,
                          authorization |-> GetHeaders(FALSE, token)])
    /\ UNCHANGED <<clientVars, transportVars, runVars, frameVars, opVars,
                   call, http_issued>>

\* variant: the token is taken from whatever the service answered
TokenFromAnyAnswer(sc, access_token, held) == access_token

\* lines 203-208: a status other than 200 raises before the assignment
\* `self.token = data.get("access_token")`
TokenAfterLogin(sc, access_token, held) ==
    IF sc = 200 THEN access_token ELSE held

\* lines 203-211
LoginReturns ==
    /\ login_pc = "sent"
    /\ login_pc' = "idle"
    /\ login_req' = None
    /\ \E sc \in {200, 401}, tok \in LoginTokens :
        /\ login_status' = sc
        /\ token' = TokenAfterLogin(sc, tok, token)
    /\ UNCHANGED <<s3_bucket_url, transportVars, runVars, frameVars, opVars,
                   token_writes, call, http_issued>>

\* requests.post raised
LoginFails ==
    /\ login_pc = "sent"
    /\ login_pc' = "idle"
    /\ login_status' = 0
    /\ login_req' = None
    /\ UNCHANGED <<clientVars, transportVars, runVars, frameVars, opVars,
                   token_writes, call, http_issued>>

\* signout (line 322)
Signout ==
    /\ token_writes < MaxTokenWrites
    /\ token_writes' = token_writes + 1
    /\ token' = None
    /\ UNCHANGED <<s3_bucket_url, transportVars, runVars, frameVars, opVars,
                   login_pc, login_status, login_req, call, http_issued>>

(* --------------------------- specification ----------------------------- *)

Tokens == {None, Some("t1")}
BucketUrls == {Some("https://bucket")}

\* nothing has been called yet
Idle ==
    /\ tpc = "idle"
    /\ treq = NoRequest
    /\ attempt = 0
    /\ last_exception = None
    /\ response = NoResponse
    /\ texc = ""
    /\ attempts_log = <<>>
    /\ sleeps = <<>>
    /\ pc = "start"
    /\ should_cancel = FALSE
    /\ notes_data_from_csv = <<>>
    /\ notes_data_from_json = <<>>
    /\ latest_update = None
    /\ protected_fields = 0
    /\ protected_tags = 0
    /\ chunk = NoChunk
    /\ outcome = "running"
    /\ error = NoError
    /\ result = None
    /\ params = NoParams
    /\ url_suffix = None
    /\ first_request = TRUE
    /\ notes_count = 0
    /\ data = NoData
    /\ depth = 0
    /\ suspended = <<>>
    /\ runs = [r \in Runs |-> NoRun]
    /\ download = NoDownload
    /\ pages = 0
    /\ stream_pages = 0
    /\ chunks = <<>>
    /\ cancel_seen = FALSE
    /\ cancel_calls = 0
    /\ progress_log = <<>>
    /\ opc = "start"
    /\ op_outcome = "running"
    /\ op_error = NoError
    /\ step = 0
    /\ dreq = None
    /\ downloaded_count = 0
    /\ login_pc = "idle"
    /\ login_status = 0
    /\ login_req = None
    /\ token_writes = 0
    /\ call = NoCall
    /\ http_issued = FALSE

\* one sync run of a configured client
Init ==
    /\ Idle
    /\ token \in Tokens
    /\ s3_bucket_url \in BucketUrls
    /\ local_media_dir_path_cb = TRUE
    /\ op = "get_deck_updates"
    /\ page_limit = MaxPages

Next ==
    \/ GetDeckUpdatesCall
    \/ AttemptReturns
    \/ AttemptFailsTransient
    \/ AttemptFailsOther
    \/ RequestRaised
    \/ PageReturned
    \/ CsvReturned
    \/ ConsumeChunk

Spec == Init /\ [][Next]_vars

\* The same run where what is enabled happens: get_deck_updates and its
\* generator are sequential code that runs on when it can, requests.request
\* returns or raises (timeout=self.timeout, line 150), and the stream of
\* the service is finite: page page_limit has no next and is not a snapshot.
InitFair ==
    /\ Idle
    /\ token \in Tokens
    /\ s3_bucket_url \in BucketUrls
    /\ local_media_dir_path_cb = TRUE
    /\ op = "get_deck_updates"
    /\ page_limit = MaxClientPages

SpecFair == InitFair /\ [][Next]_vars /\ WF_vars(Next)

\* one operation of a client, with login and signout called next to it;
\* the client lacks a configuration value only where the operation reads it
InitClient ==
    /\ Idle
    /\ token \in Tokens
    /\ op \in Ops
    /\ s3_bucket_url \in BucketUrls \cup {None}
    /\ s3_bucket_url = None => op \in BucketOps
    /\ local_media_dir_path_cb \in BOOLEAN
    /\ ~local_media_dir_path_cb => op \in MediaDirOps
    /\ page_limit = MaxClientPages

NextClient ==
    \/ GetDeckUpdatesCall
    \/ AttemptReturns
    \/ AttemptFailsTransient
    \/ AttemptFailsOther
    \/ RequestRaised
    \/ PageReturned
    \/ CsvReturned
    \/ ConsumeChunk
    \/ OpCall
    \/ OpReturned
    \/ OpRaised
    \/ OpAgain
    \/ DirectReturns
    \/ DirectFails
    \/ GenCall
    \/ GenNext
    \/ GenPageReturned
    \/ GenClose
    \/ LoginSend
    \/ LoginReturns
    \/ LoginFails
    \/ Signout

SpecClient == InitClient /\ [][NextClient]_vars

(* ------------------- the loop of get_deck_updates ---------------------- *)

\* The for loop of get_deck_updates (lines 461-495) over what the generator
\* yields, with pages of several notes: a chunk is any chunk
\* _get_deck_updates_inner can yield, here without protection metadata,
\* and the generator ends after a delta chunk (after a snapshot chunk it
\* goes on into the recursion, line 549).
MergeNids == 1 .. MaxMergeNid
YieldedChunks(k) ==
    LET all == {[notes |-> [i \in 1 .. Len(s) |-> [ah_nid |-> s[i], rev |-> k]],
                 latest_update |-> lu, protected_fields |-> 0,
                 protected_tags |-> 0, from_csv |-> csv] :
                    csv \in BOOLEAN, lu \in OptTimes,
                    s \in SeqsUpTo(MergeNids, MaxMergeNotes)}
    IN  {c \in all : c.from_csv =>
            NoRepeats([i \in 1 .. Len(c.notes) |-> c.notes[i].ah_nid])}

\* lines 451-467: the call with a token, up to the for statement
ForStart ==
    /\ op = "get_deck_updates"
    /\ pc = "start"
    /\ Truthy(token)
    /\ pc' = "loop"
    /\ should_cancel' \in BOOLEAN
    /\ call' = [made |-> TRUE, op |-> op, token_absent |-> FALSE,
                raised |-> "",
                earlier |-> call.earlier]
    /\ UNCHANGED <<clientVars, transportVars, frameVars, opVars, loginVars,
                   http_issued, notes_data_from_csv, notes_data_from_json,
                   latest_update, protected_fields, protected_tags, chunk,
                   outcome, error, result, cancel_seen, cancel_calls, progress_log>>

\* lines 468-481: the generator yields a chunk and the loop body runs
ForChunk ==
    /\ pc = "loop"
    /\ cancel_calls' = cancel_calls + Consults(should_cancel)
    /\ UNCHANGED progress_log
    /\ Len(chunks) < MaxMergeChunks
    /\ \E c \in YieldedChunks(Len(chunks) + 1), answer \in BOOLEAN :
        /\ chunk' = c
        /\ chunks' = Append(chunks, c)
        /\ IF should_cancel /\ answer
           THEN LET r == ReturnOnCancel(notes_data_from_json,
                                        notes_data_from_csv, latest_update,
                                        protected_fields, protected_tags)
                IN  /\ cancel_seen' = TRUE
                    /\ pc' = "done"
                    /\ outcome' = r.outcome
                    /\ result' = r.result
                    /\ UNCHANGED <<error, notes_data_from_csv,
                                   notes_data_from_json, latest_update,
                                   protected_fields, protected_tags>>
           ELSE IF SkipsChunk(c)
           THEN UNCHANGED <<pc, outcome, error, result, cancel_seen,
                            notes_data_from_csv, notes_data_from_json,
                            latest_update, protected_fields, protected_tags>>
           ELSE /\ notes_data_from_csv' =
                        IF c.from_csv
                        THEN AssignSnapshot(notes_data_from_csv, c.notes)
                        ELSE notes_data_from_csv
                /\ notes_data_from_json' =
                        IF c.from_csv THEN notes_data_from_json
                        ELSE ExtendNotes(notes_data_from_json, c.notes)
                /\ UNCHANGED cancel_seen
                /\ IF latest_update # None /\ c.latest_update = None
                   THEN \* line 479: max(None, datetime) raises TypeError
                        /\ Fail(Err("TypeError", 0))
                        /\ UNCHANGED <<latest_update, protected_fields,
                                       protected_tags>>
                   ELSE /\ latest_update' =
                                NextWatermark(latest_update, c.latest_update)
                        /\ protected_fields' =
                                NextProtection(protected_fields,
                                               c.protected_fields)
                        /\ protected_tags' =
                                NextProtection(protected_tags,
                                               c.protected_tags)
                        /\ UNCHANGED <<pc, outcome, error, result>>
    /\ UNCHANGED <<clientVars, transportVars, opVars, loginVars, call,
                   http_issued, should_cancel, params, url_suffix,
                   first_request, notes_count, data, depth, suspended, runs, download, pages,
                   stream_pages>>

\* lines 483-495: the generator is exhausted
ForEnds ==
    /\ pc = "loop"
    /\ chunks # <<>>
    /\ ~chunk.from_csv
    /\ result' = Some(DeckUpdates(notes_data_from_json, notes_data_from_csv,
                                  latest_update, protected_fields,
                                  protected_tags))
    /\ outcome' = "merged"
    /\ pc' = "done"
    /\ UNCHANGED <<clientVars, transportVars, frameVars, opVars, loginVars,
                   call, http_issued, should_cancel, notes_data_from_csv,
                   notes_data_from_json, latest_update, protected_fields,
                   protected_tags, chunk, error, cancel_seen, cancel_calls, progress_log>>

InitMerge ==
    /\ Idle
    /\ token = Some("t1")
    /\ s3_bucket_url \in BucketUrls
    /\ local_media_dir_path_cb = TRUE
    /\ op = "get_deck_updates"
    /\ page_limit = MaxPages

NextMerge ==
    \/ ForStart
    \/ ForChunk
    \/ ForEnds

SpecMerge == InitMerge /\ [][NextMerge]_vars

(* ------------------------ two concurrent runs -------------------------- *)

\* Two calls of get_deck_updates on one client, active at once and taking
\* turns page by page.  A turn is one page of one run: the request, the
\* chunk and the loop body for it.  Requests succeed and should_cancel is
\* not given.

\* variant: the accumulators are kept on the client, one set for all runs
SharedLocals(r) == 1

\* lines 454-458 and 511-518: the accumulators, the cursor, the flag and
\* the counter are locals of the call and of its generator frame
OwnLocals(r) == r

\* what the k-th page of a run can be, with its next cursor
RunPages(k, final) ==
    {[notes |-> ns, latest_update |-> lu, protected_fields |-> 0,
      protected_tags |-> 0, from_csv |-> FALSE, next |-> nx] :
        ns \in PageNotes(k), lu \in OptTimes,
        nx \in (IF final THEN {None} ELSE {None, Some(CursorB)})}
    \cup
    (IF final THEN {}
     ELSE {[notes |-> ns, latest_update |-> lu, protected_fields |-> 0,
            protected_tags |-> 0, from_csv |-> TRUE, next |-> None] :
            ns \in PageNotes(k), lu \in OptTimes})

\* lines 451-467 and 511-518 for run r
RunCall(r) ==
    LET own == OwnLocals(r)
    IN  /\ runs[r].pc = "start"
        /\ runs' = [runs EXCEPT ![own].notes_data_from_csv = <<>>,
                                ![own].notes_data_from_json = <<>>,
                                ![own].latest_update = None,
                                ![own].protected_fields = 0,
                                ![own].protected_tags = 0,
                                ![own].url_suffix = Some(DeckUpdatesSuffix),
                                ![own].first_request = TRUE,
                                ![own].notes_count = 0,
                                ![r].pc = "loop"]

\* one page of run r: lines 520-574 and the loop body, lines 468-481
RunPage(r) ==
    LET own == OwnLocals(r)
        st == runs[own]
        k == Len(runs[r].chunks) + 1
    IN  /\ runs[r].pc = "loop"
        /\ st.url_suffix # None
        /\ \E c \in RunPages(k, k >= MaxRunPages) :
            LET applies == ~SkipsChunk(c)
                csv1 == IF applies /\ c.from_csv
                        THEN AssignSnapshot(st.notes_data_from_csv, c.notes)
                        ELSE st.notes_data_from_csv
                json1 == IF applies /\ ~c.from_csv
                         THEN ExtendNotes(st.notes_data_from_json, c.notes)
                         ELSE st.notes_data_from_json
                raises == applies /\ st.latest_update # None
                            /\ c.latest_update = None
            IN  runs' =
                  [runs EXCEPT
                    ![own].notes_data_from_csv = csv1,
                    ![own].notes_data_from_json = json1,
                    ![own].latest_update =
                        IF applies /\ ~raises
                        THEN NextWatermark(st.latest_update,
                                           c.latest_update)
                        ELSE st.latest_update,
                    ![own].protected_fields =
                        IF applies /\ ~raises
                        THEN NextProtection(st.protected_fields,
                                            c.protected_fields)
                        ELSE st.protected_fields,
                    ![own].protected_tags =
                        IF applies /\ ~raises
                        THEN NextProtection(st.protected_tags,
                                            c.protected_tags)
                        ELSE st.protected_tags,
                    ![own].url_suffix =
                        IF c.from_csv THEN Some(DeckUpdatesSuffix)
                        ELSE RewriteNext(c.next),
                    ![own].first_request = c.from_csv,
                    ![own].notes_count =
                        IF c.from_csv THEN 0
                        ELSE st.notes_count + Len(c.notes),
                    ![r].chunks = Append(runs[r].chunks, c),
                    ![r].pc = IF raises THEN "done" ELSE "loop",
                    ![r].outcome = IF raises THEN "error" ELSE "running",
                    ![r].error = IF raises THEN Err("TypeError", 0)
                                 ELSE NoError]

\* the generator of run r is exhausted: lines 483-495
RunEnds(r) ==
    LET st == runs[OwnLocals(r)]
    IN  /\ runs[r].pc = "loop"
        /\ st.url_suffix = None
        /\ runs' = [runs EXCEPT
                      ![r].pc = "done",
                      ![r].outcome = "merged",
                      ![r].result =
                        Some(DeckUpdates(st.notes_data_from_json,
                                         st.notes_data_from_csv,
                                         st.latest_update,
                                         st.protected_fields,
                                         st.protected_tags))]

TwoRunsCall ==
    /\ \E r \in Runs : RunCall(r)
    /\ UNCHANGED <<clientVars, transportVars, runVars, params, url_suffix,
                   first_request, notes_count, data, depth, suspended, download, pages,
                   stream_pages, chunks, opVars, loginVars, call,
                   http_issued>>

TwoRunsPage ==
    /\ \E r \in Runs : RunPage(r)
    /\ UNCHANGED <<clientVars, transportVars, runVars, params, url_suffix,
                   first_request, notes_count, data, depth, suspended, download, pages,
                   stream_pages, chunks, opVars, loginVars, call,
                   http_issued>>

TwoRunsEnds ==
    /\ \E r \in Runs : RunEnds(r)
    /\ UNCHANGED <<clientVars, transportVars, runVars, params, url_suffix,
                   first_request, notes_count, data, depth, suspended, download, pages,
                   stream_pages, chunks, opVars, loginVars, call,
                   http_issued>>

NextTwoRuns ==
    \/ TwoRunsCall
    \/ TwoRunsPage
    \/ TwoRunsEnds

SpecTwoRuns == InitMerge /\ [][NextTwoRuns]_vars

(* ----------------------- _transform_notes_data ------------------------- *)

\* A raw note is a dict: a function from the keys it has to values, and a
\* value is written as the Python literal it is.  "str:..." is a str that
\* holds JSON text or digits.
NormalizedKeys == {"fields", "anki_id", "note_id", "note_type_id", "tags",
                   "last_update_type"}
NoteKeys == NormalizedKeys \cup {"deleted", "ankihub_id", "id", "guid"}
Absent == "<absent>"
RawValues(k) ==
    CASE k = "fields" -> {"str:[f]", "[f]"}
      [] k = "tags" -> {"str:[t]", "[t]"}
      [] k = "anki_id" -> {"str:12", "12"}
      [] k = "note_type_id" -> {"34"}
      [] k = "note_id" -> {Absent, "'n1'"}
      [] k = "ankihub_id" -> {Absent, "'n2'"}
      [] k = "id" -> {Absent, "'n3'"}
      [] k = "guid" -> {Absent, "'g'"}
      [] k = "deleted" -> {Absent, "None", "False", "True", "0", "1"}
      [] k = "last_update_type" ->
            {Absent, "None", "'updated_content'", "'delete'"}
RawNotesData ==
    {<<[k \in {j \in NoteKeys : full[j] # Absent} |-> full[k]]>> :
        full \in {[fields |-> f, tags |-> t, anki_id |-> a,
                   note_type_id |-> "34", note_id |-> n1, ankihub_id |-> n2,
                   id |-> n3, guid |-> g, deleted |-> d,
                   last_update_type |-> u] :
                    f \in RawValues("fields"), t \in RawValues("tags"),
                    a \in RawValues("anki_id"), n1 \in RawValues("note_id"),
                    n2 \in RawValues("ankihub_id"), n3 \in RawValues("id"),
                    g \in RawValues("guid"), d \in RawValues("deleted"),
                    u \in RawValues("last_update_type")}}

\* dict.get(key, default)
Get(d, k, default) == IF k \in DOMAIN d THEN d[k] ELSE default

\* the truth value Python gives a value
PyTruthy(v) == v \notin {"None", "False", "0", "''"}

\* json.loads(x) if isinstance(x, str) else x (lines 619-621, 625-627)
LoadsIfStr(v) ==
    CASE v = "str:[f]" -> "[f]"
      [] v = "str:[t]" -> "[t]"
      [] OTHER -> v

\* int(x) (lines 622 and 624)
ToInt(v) == IF v = "str:12" THEN "12" ELSE v

\* variant: the raw last_update_type is passed through
RawUpdateType(note_data) == Get(note_data, "last_update_type", "None")

\* lines 628-630
NormalizedUpdateType(note_data) ==
    IF PyTruthy(Get(note_data, "deleted", "None")) THEN "'delete'"
    ELSE Get(note_data, "last_update_type", "None")

\* lines 616-631: {**note_data, ...}
Transformed(note_data) ==
    [k \in DOMAIN note_data \cup NormalizedKeys |->
        CASE k = "fields" -> LoadsIfStr(note_data["fields"])
          [] k = "anki_id" -> ToInt(note_data["anki_id"])
          [] k = "note_id" ->
                Get(note_data, "note_id",
                    Get(note_data, "ankihub_id",
                        Get(note_data, "id", "None")))
          [] k = "note_type_id" -> ToInt(note_data["note_type_id"])
          [] k = "tags" -> LoadsIfStr(note_data["tags"])
          [] k = "last_update_type" -> NormalizedUpdateType(note_data)
          [] OTHER -> note_data[k]]

\* _transform_notes_data (lines 612-632)
TransformNotesData(notes_data) ==
    [i \in 1 .. Len(notes_data) |-> Transformed(notes_data[i])]

\* lines 560-563: the notes of a delta page are decoded; data.notes holds
\* the decoded list, notes_data
DecodeNotes ==
    /\ pc = "start"
    /\ pc' = "decoded"
    /\ \E notes_data \in RawNotesData :
        data' = [NoData EXCEPT !.has_notes = TRUE, !.notes = notes_data]
    /\ UNCHANGED <<clientVars, transportVars, opVars, loginVars, call,
                   http_issued, should_cancel, notes_data_from_csv,
                   notes_data_from_json, latest_update, protected_fields,
                   protected_tags, chunk, outcome, error, result,
                   cancel_seen, cancel_calls, progress_log, params, url_suffix,
                   first_request, notes_count, depth, suspended, runs, download, pages,
                   stream_pages, chunks>>

\* lines 564-567: the list is transformed and the chunk built from it is
\* yielded
TransformNotes ==
    /\ pc = "decoded"
    /\ pc' = "yielded"
    /\ chunk' = [NoChunk EXCEPT !.notes = TransformNotesData(data.notes)]
    /\ UNCHANGED <<clientVars, transportVars, opVars, loginVars, call,
                   http_issued, should_cancel, notes_data_from_csv,
                   notes_data_from_json, latest_update, protected_fields,
                   protected_tags, outcome, error, result, cancel_seen,
                   cancel_calls, progress_log, frameVars>>

NextTransform ==
    \/ DecodeNotes
    \/ TransformNotes

SpecTransform == InitMerge /\ [][NextTransform]_vars

(* ------------------- the body of the snapshot download ------------------ *)

\* the Content-Length values of the snapshot response, 0 for a response
\* without the header; the last one is above twenty times MaxChunkSize
ContentLengths == {0, 10, 20, 39, 107, 21000000}

\* the lengths of the body of a response without Content-Length
UnsizedBodies == {0, 5000, 20000}

\* line 588: 10**6 and 8192
MaxChunkSize == 1000000
DefaultChunkSize == 8192

Smaller(a, b) == IF a <= b THEN a ELSE b

\* variant: chunks of the default size whatever the Content-Length
FixedChunkSize(total_size) == DefaultChunkSize

\* line 588: int(min(total_size * 0.05, 10**6)) if total_size > 0 else 8192
ChunkSize(total_size) ==
    IF total_size > 0
    THEN Smaller(total_size \div 20, MaxChunkSize)
    ELSE DefaultChunkSize

\* line 592: int(i * chunk_size / total_size * 100); on the values of
\* ContentLengths the floating-point result is the exact quotient's
Percent(i, chunk_size, total_size) == (i * chunk_size * 100) \div total_size

\* lines 582-588 and 596: the response is 200 and its headers are read.
\* Without progress_cb the body is taken whole from response.content.
DownloadStart ==
    /\ download.pc = "start"
    /\ \E cb \in BOOLEAN, total \in ContentLengths :
        \E body \in (IF total > 0 THEN {total} ELSE UnsizedBodies) :
            download' =
                IF cb
                THEN [NoDownload EXCEPT !.pc = "reading",
                                        !.progress_cb = TRUE,
                                        !.total_size = total,
                                        !.chunk_size = ChunkSize(total),
                                        !.unread = body]
                ELSE [NoDownload EXCEPT !.pc = "read",
                                        !.content = body]
    /\ UNCHANGED <<clientVars, transportVars, runVars, params, url_suffix,
                   first_request, notes_count, data, depth, suspended, runs,
                   pages, stream_pages, chunks, opVars, loginVars, call,
                   http_issued>>

\* lines 589-594: iter_content hands over the next chunk, chunk_size bytes
\* of the body or what is left of it.  What it hands over for a
\* chunk_size of 0 is up to the library: any part of what is left.
ReadChunk ==
    /\ download.pc = "reading"
    /\ download.unread > 0
    /\ \E n \in (IF download.chunk_size > 0
                 THEN {Smaller(download.chunk_size, download.unread)}
                 ELSE {1, download.unread}) :
        download' =
            [download EXCEPT
                !.i = download.i + 1,
                !.unread = download.unread - n,
                !.content = download.content + n,
                !.reads = Append(download.reads, n),
                !.percents =
                    IF download.total_size > 0
                    THEN Append(download.percents,
                                Percent(download.i + 1, download.chunk_size,
                                        download.total_size))
                    ELSE download.percents]
    /\ UNCHANGED <<clientVars, transportVars, runVars, params, url_suffix,
                   first_request, notes_count, data, depth, suspended, runs,
                   pages, stream_pages, chunks, opVars, loginVars, call,
                   http_issued>>

\* iter_content is exhausted; with a chunk_size of 0 the library may stop
\* handing over chunks at any point
ReadEnds ==
    /\ download.pc = "reading"
    /\ download.unread = 0 \/ download.chunk_size = 0
    /\ download' = [download EXCEPT !.pc = "read"]
    /\ UNCHANGED <<clientVars, transportVars, runVars, params, url_suffix,
                   first_request, notes_count, data, depth, suspended, runs,
                   pages, stream_pages, chunks, opVars, loginVars, call,
                   http_issued>>

NextDownload == DownloadStart \/ ReadChunk \/ ReadEnds

SpecDownload == InitMerge /\ [][NextDownload]_vars

(* ------------------------------ claims --------------------------------- *)

\* what the history of a run says, independently of the run's own variables
RECURSIVE DeltaNotesOf(_)
DeltaNotesOf(log) ==
    IF log = <<>> THEN <<>>
    ELSE LET c == log[Len(log)]
             before == DeltaNotesOf(SubSeq(log, 1, Len(log) - 1))
         IN  IF c.from_csv THEN before ELSE before \o c.notes

\* indexes of the chunks that carry at least one note
NotesBearing(log) == {i \in 1 .. Len(log) : log[i].notes # <<>>}
SnapshotsOf(log) == {i \in NotesBearing(log) : log[i].from_csv}
MaxOf(S) == CHOOSE x \in S : \A y \in S : y <= x

\* the notes of the (last notes-bearing) snapshot chunk of the run
SnapshotNotesOf(log) ==
    IF SnapshotsOf(log) = {} THEN <<>> ELSE log[MaxOf(SnapshotsOf(log))].notes

AhNids(notes) == {n.ah_nid : n \in Range(notes)}

\* the greatest latest_update among the chunks with index in I, None when
\* none of them carries one
WatermarkOver(log, I) ==
    LET carried == {log[i].latest_update[1] :
                        i \in {j \in I : log[j].latest_update # None}}
    IN  IF carried = {} THEN None ELSE Some(MaxOf(carried))

Merged == pc = "done" /\ outcome = "merged"

\* C1: JSON-wins merge.  A run that returns a DeckUpdates returns every note
\* of its delta chunks, plus exactly the notes of its snapshot chunk whose
\* ah_nid no delta note has, each once and nothing else; of an ah_nid that
\* is in both only the delta instance is returned.  (When the recursive
\* stream sends a snapshot again, the snapshot chunk meant is the last one
\* that carries notes.)
C1_JsonWins ==
    Merged =>
        LET D == DeltaNotesOf(chunks)
            S == SnapshotNotesOf(chunks)
            R == result[1].notes
            kept == {i \in 1 .. Len(S) : S[i].ah_nid \notin AhNids(D)}
        IN  /\ Range(R) = Range(D) \cup {S[i] : i \in kept}
            /\ Len(R) = Len(D) + Cardinality(kept)
            /\ \A n \in Range(R) : n.ah_nid \in AhNids(D) => n \in Range(D)

\* a merged run whose snapshot has a note the deltas replace and a note they
\* leave alone
C1_Witness ==
    /\ Merged
    /\ \E n \in Range(SnapshotNotesOf(chunks)) :
            n.ah_nid \in AhNids(DeltaNotesOf(chunks))
    /\ \E n \in Range(SnapshotNotesOf(chunks)) :
            n.ah_nid \notin AhNids(DeltaNotesOf(chunks))

\* C2: cancellation atomicity.  Once should_cancel has returned true the
\* run has ended with the cancelled sentinel (None) and no DeckUpdates,
\* whatever was accumulated before.
C2_CancelAtomic ==
    cancel_seen => pc = "done" /\ outcome = "cancelled" /\ result = None

\* cancelled at a later page, with notes, a watermark and protection
\* metadata already accumulated from a snapshot and a delta page
C2_Witness ==
    /\ cancel_seen
    /\ Len(chunks) >= 3
    /\ notes_data_from_json # <<>>
    /\ notes_data_from_csv # <<>>
    /\ latest_update # None
    /\ protected_fields # 0

\* C3 as stated: the returned latest_update is the maximum over all the
\* chunks the run received.
C3_MaxOverAllChunks ==
    Merged =>
        result[1].latest_update = WatermarkOver(chunks, 1 .. Len(chunks))

\* C3 as amended: the returned latest_update is the maximum of latest_update
\* over the chunks of the run that carry at least one note (None when there
\* is no such chunk or none of them carries a latest_update), and so is
\* greater than or equal to each of them.
C3_MaxOverNotesBearing ==
    Merged =>
        /\ result[1].latest_update =
                WatermarkOver(chunks, NotesBearing(chunks))
        /\ \A i \in NotesBearing(chunks) :
                chunks[i].latest_update # None =>
                    /\ result[1].latest_update # None
                    /\ result[1].latest_update[1] >= chunks[i].latest_update[1]

\* a merged run in which an earlier chunk carries a later watermark than
\* the last chunk, both with notes, one of them a snapshot
C3_Witness ==
    /\ Merged
    /\ \E i, j \in NotesBearing(chunks) :
        /\ i < j
        /\ chunks[i].from_csv
        /\ chunks[i].latest_update # None
        /\ chunks[j].latest_update # None
        /\ chunks[i].latest_update[1] > chunks[j].latest_update[1]

\* C4 as stated: the returned protection metadata is that of the last chunk
\* of the run (every chunk carries protected_fields and protected_tags).
C4_LastChunk ==
    Merged =>
        /\ result[1].protected_fields = chunks[Len(chunks)].protected_fields
        /\ result[1].protected_tags = chunks[Len(chunks)].protected_tags

\* C4 as amended: the returned protected_fields and protected_tags are those
\* of the last chunk of the run that carries at least one note, whatever
\* earlier chunks carried, and are empty when no chunk carries a note.
C4_LastNotesBearing ==
    Merged =>
        IF NotesBearing(chunks) = {}
        THEN /\ result[1].protected_fields = 0
             /\ result[1].protected_tags = 0
        ELSE LET last == chunks[MaxOf(NotesBearing(chunks))]
             IN  /\ result[1].protected_fields = last.protected_fields
                 /\ result[1].protected_tags = last.protected_tags

\* a merged run whose chunks with notes carry different metadata, the
\* earlier one non-empty
C4_Witness ==
    /\ Merged
    /\ \E i, j \in NotesBearing(chunks) :
        /\ i < j
        /\ chunks[i].protected_fields # 0
        /\ chunks[i].protected_fields # chunks[j].protected_fields
        /\ chunks[i].protected_tags # chunks[j].protected_tags

\* C5: retry bound.  A logical request makes at most 3 HTTP attempts,
\* whatever failures the network produces, and a response is always the
\* last attempt: the first attempt that returns one ends the request.
C5_RetryBound ==
    /\ Len(attempts_log) <= 3
    /\ \A i \in 1 .. Len(attempts_log) :
            attempts_log[i] = "Response" =>
                i = Len(attempts_log) /\ tpc = "returned"

\* a request answered at its third attempt
C5_Witness ==
    /\ tpc = "returned"
    /\ Len(attempts_log) = 3

\* C6: retry delay.  Each failed transient attempt that is followed by
\* another attempt is followed by one wait of 2s, and there is no other
\* wait: while the i-th attempt is pending i-1 waits have happened, and a
\* request that ended after k attempts has waited k-1 times, 2s each, never
\* after its final attempt.
C6_RetryDelay ==
    LET k == Len(attempts_log)
        waits == IF tpc = "attempt" THEN k
                 ELSE IF k = 0 THEN 0 ELSE k - 1
    IN  sleeps = [i \in 1 .. waits |-> [after |-> i, secs |-> 2]]

\* one failure, then success: 2 attempts and one wait of 2s
C6_Witness ==
    /\ tpc = "returned"
    /\ response.status_code = 200
    /\ Len(attempts_log) = 2
    /\ sleeps = <<[after |-> 1, secs |-> 2]>>

\* C7 as stated: a request one of whose attempts ends in anything but a
\* connection failure or a timeout makes exactly 1 attempt.
C7_ExactlyOneAttempt ==
    (\E i \in 1 .. Len(attempts_log) :
            attempts_log[i] \notin {"ConnectionError", "Timeout"})
        => Len(attempts_log) = 1

\* C7 as amended: an attempt that ends in anything but a connection failure
\* or a timeout is the last attempt of its request (so the request makes
\* exactly 1 attempt when that is its first attempt); a response of any
\* status is returned to the caller, any other exception is raised.
C7_NotRetried ==
    \A i \in 1 .. Len(attempts_log) :
        attempts_log[i] \notin {"ConnectionError", "Timeout"} =>
            /\ i = Len(attempts_log)
            /\ attempts_log[i] = "Response" =>
                    tpc = "returned" /\ response.status_code # 0
            /\ attempts_log[i] # "Response" =>
                    tpc = "raised" /\ texc = attempts_log[i]

\* a non-2xx response returned at the first attempt
C7_Witness ==
    /\ tpc = "returned"
    /\ attempts_log = <<"Response">>
    /\ response.status_code = 500

\* C8: retry exhaustion.  When the three attempts of a request have all
\* failed with a connection failure or a timeout, _send_request raises the
\* exception of the third attempt, and the sync run ends with that error
\* and without a result.
Exhausted ==
    /\ tpc = "raised"
    /\ Len(attempts_log) = 3
    /\ \A i \in 1 .. 3 : attempts_log[i] \in {"ConnectionError", "Timeout"}

C8_Exhaustion ==
    [][Exhausted =>
            /\ texc = attempts_log[3]
            /\ pc' = "done"
            /\ outcome' = "error"
            /\ error' = Err(attempts_log[3], 0)
            /\ result' = None]_vars

\* a run that failed with a timeout after earlier pages were merged
C8_Witness ==
    /\ pc = "done"
    /\ outcome = "error"
    /\ error = Err("Timeout", 0)
    /\ notes_data_from_json # <<>>

\* C9: not authenticated.  An operation that requires a token and is called
\* while the token is absent fails at the call, synchronously, with the
\* not-authenticated error, and issues no HTTP request.
C9_FailsAtCall ==
    (call.made /\ call.op \in TokenOps /\ call.token_absent) =>
        /\ call.raised = NotAuthenticated
        /\ ~http_issued

\* C10: authorization scoping.  Every HTTP request in flight (sent by
\* _send_request or by requests.get / requests.post directly) that carries
\* an Authorization header goes to the service API, and carries the
\* Bearer header of a token; every request to the object storage (snapshot
\* download, media file fetch, uploads, deck file download) carries none,
\* whether or not the client holds a token.
InFlight ==
    (IF tpc = "attempt"
     THEN {[base |-> treq.base, authorization |-> treq.authorization]}
     ELSE {})
    \cup (IF dreq # None
          THEN {[base |-> dreq[1].base,
                 authorization |-> dreq[1].authorization]}
          ELSE {})
    \cup (IF login_req # None
          THEN {[base |-> login_req[1].base,
                 authorization |-> login_req[1].authorization]}
          ELSE {})

C10_AuthorizationScoping ==
    \A r \in InFlight :
        /\ r.authorization # None =>
                /\ r.base = ApiUrl
                /\ r.authorization[1][1] = "Bearer"
                /\ r.authorization[1][2] \in {"t1", "t2"}
        /\ r.base # ApiUrl => r.authorization = None

\* a request to the object storage in flight while the client holds a token
C10_Witness ==
    /\ tpc = "attempt"
    /\ treq.api = "S3"
    /\ treq.base = "https://bucket"
    /\ Truthy(token)

\* a page request of one of the three paginated streams is in flight
PageRequestInFlight ==
    /\ op \in PagedOps
    /\ tpc = "attempt"
    /\ treq.api = "NOTTORNEY"

\* C11: query parameters on the first request only.  In the deck, media and
\* extension streams the first page request of a stream carries the initial
\* parameters (since, size = 2000, and full_deck for the deck stream) and
\* every later page request of that stream carries no parameters.
C11_ParamsFirstOnly ==
    PageRequestInFlight =>
        IF stream_pages = 1
        THEN /\ treq.params = Some(params)
             /\ treq.params[1].size = 2000
             /\ treq.params[1].since \in
                    {None} \cup {Some([fmt |-> t]) : t \in Times}
             /\ op = "get_deck_updates" =>
                    treq.params[1].full_deck \in BOOLEAN
        ELSE treq.params = None

\* the second page request of a media stream is in flight
C11_Witness ==
    /\ PageRequestInFlight
    /\ op = "get_deck_media_updates"
    /\ stream_pages = 2

\* a page request of the deck stream is in flight
DeckPageRequestInFlight ==
    /\ op = "get_deck_updates"
    /\ tpc = "attempt"
    /\ treq.api = "NOTTORNEY"

NoSnapshotChunk == \A i \in 1 .. Len(chunks) : ~chunks[i].from_csv

\* C12: pure-delta pagination.  A run over delta pages only issues one page
\* request per page: each request after the first goes to the cursor of the
\* page before it, which was not null; the run ends at the page whose next
\* is null, having issued as many requests as it received pages, and returns
\* the notes of all the pages concatenated in page order.
C12_PureDelta ==
    /\ (DeckPageRequestInFlight /\ NoSnapshotChunk /\ pages > 1) =>
            /\ data.next # None
            /\ treq.suffix = RewriteNext(data.next)[1]
            /\ pages = Len(chunks) + 1
    /\ (Merged /\ NoSnapshotChunk) =>
            /\ data.next = None
            /\ pages = Len(chunks)
            /\ result[1].notes = DeltaNotesOf(chunks)

\* a merged run of three delta pages, each with a note
C12_Witness ==
    /\ Merged
    /\ NoSnapshotChunk
    /\ pages = 3
    /\ \A i \in 1 .. 3 : chunks[i].notes # <<>>

\* what follows the first "/api" of a URL, the URL itself when it has none
SuffixAfterApi(url) ==
    IF "/api" \notin Range(url) THEN url
    ELSE LET cut == CHOOSE i \in 1 .. Len(url) :
                        /\ url[i] = "/api"
                        /\ "/api" \notin Range(SubSeq(url, 1, i - 1))
         IN  [j \in 1 .. (Len(url) - cut) |-> url[cut + j]]

\* C13: cursor rewriting.  In the deck, media and extension streams every
\* page request after the first of its stream goes to the next value of the
\* page before it with everything up to and including its first "/api"
\* removed (a later "/api" is kept), and to that value verbatim when it
\* does not contain "/api".
C13_CursorRewriting ==
    (PageRequestInFlight /\ stream_pages > 1) =>
        /\ data.next # None
        /\ treq.suffix = SuffixAfterApi(data.next[1])
        /\ data.next = Some(CursorA) =>
                treq.suffix = <<"/decks/X", "/api", "/updates?cursor=a">>
        /\ data.next = Some(CursorB) => treq.suffix = CursorB

\* a request that follows a full URL with two "/api"
C13_Witness ==
    /\ PageRequestInFlight
    /\ stream_pages > 1
    /\ data.next = Some(<<"https://host", "/api", "/decks/X", "/api",
                          "/updates?cursor=a">>)

\* C14: a snapshot page is terminal for its stream.  A deck-update request
\* is either the first of a stream, sent to /decks/{id}/updates, or follows
\* the cursor of the delta page read just before it; the cursor of a
\* snapshot page is never followed, and when the run merges the last page
\* read is a delta page without cursor and every request of the run has
\* produced its one chunk, so the stream that received the snapshot page
\* has issued no request after the recursive stream completed.
C14_SnapshotTerminal ==
    /\ DeckPageRequestInFlight =>
            IF stream_pages = 1
            THEN treq.suffix = DeckUpdatesSuffix
            ELSE /\ ~Truthy(data.external_notes_url)
                 /\ data.next # None
                 /\ treq.suffix = SuffixAfterApi(data.next[1])
    /\ Merged =>
            /\ ~Truthy(data.external_notes_url)
            /\ data.next = None
            /\ pages = Len(chunks)

\* a run merged after a snapshot page that carried a cursor
C14_Witness ==
    /\ Merged
    /\ Len(chunks) = 2
    /\ chunks[1].from_csv
    /\ suspended = <<Some(<<"/decks/X", "/api", "/updates?cursor=a">>)>>

\* the index of a chunk that came after a snapshot chunk
AfterSnapshot(i) == \E j \in 1 .. (i - 1) : chunks[j].from_csv

\* C15: recursion watermark.  After a snapshot page the first request of
\* the recursive stream goes to /decks/{id}/updates with since the
\* formatted latest_update of the snapshot page (no since when the page
\* has none), full_deck false and size 2000; the chunks the recursive
\* stream yields are accumulated into the state of the same run: its delta
\* notes are in the merged result and its notes-bearing chunks set the
\* result's latest_update.
C15_RecursionWatermark ==
    /\ (DeckPageRequestInFlight /\ depth > 0 /\ stream_pages = 1) =>
            /\ Truthy(data.external_notes_url)
            /\ treq.suffix = <<"/decks/X/updates">>
            /\ treq.params =
                 Some([since |-> IF data.latest_update = None THEN None
                                 ELSE Some([fmt |-> data.latest_update[1]]),
                       size |-> 2000,
                       full_deck |-> FALSE])
    /\ Merged =>
            \A i \in 1 .. Len(chunks) :
                (AfterSnapshot(i) /\ chunks[i].notes # <<>>) =>
                    /\ ~chunks[i].from_csv =>
                            Range(chunks[i].notes)
                                \subseteq Range(result[1].notes)
                    /\ chunks[i].latest_update # None =>
                            /\ result[1].latest_update # None
                            /\ result[1].latest_update[1]
                                    >= chunks[i].latest_update[1]

\* the recursive request went out with the watermark of the snapshot page
C15_Witness ==
    /\ DeckPageRequestInFlight
    /\ depth = 1
    /\ stream_pages = 1
    /\ data.latest_update = Some(2)
    /\ treq.params[1].since = Some([fmt |-> 2])

\* a page request or the snapshot download of the run has its response
AnswerPending == pc \in {"page", "csv"} /\ tpc = "returned"

\* C16: an HTTP failure aborts the run.  When a page request of a deck
\* sync, outer or recursive, or the snapshot download returns a status
\* other than 200, get_deck_updates fails with the HTTP error of that
\* response, returns neither a DeckUpdates nor the cancelled sentinel,
\* whatever was accumulated before, and issues no further request; a run
\* that failed so stays failed.
C16_HttpFailureAborts ==
    /\ [][(AnswerPending /\ response.status_code # 200) =>
            /\ pc' = "done"
            /\ outcome' = "error"
            /\ error' = [kind |-> "NottorneyHTTPError",
                         status_code |-> response.status_code]
            /\ result' = None
            /\ tpc' = "idle"
            /\ pages' = pages]_vars
    /\ [](error.kind = "NottorneyHTTPError" =>
            /\ pc = "done"
            /\ outcome = "error"
            /\ result = None
            /\ tpc = "idle")

\* the download of a second snapshot was refused after the first snapshot
\* had been accumulated
C16_Witness ==
    /\ outcome = "error"
    /\ error = [kind |-> "NottorneyHTTPError", status_code |-> 403]
    /\ result = None
    /\ notes_data_from_csv # <<>>
    /\ pages = 2

\* C17: protocol error.  A deck-update page returned with status 200 that
\* has neither a non-empty external_notes_url nor notes makes the run fail
\* with ValueError("No notes in the response"): no DeckUpdates is returned
\* and no further page is requested.
C17_ProtocolError ==
    /\ [][(/\ pc = "page"
           /\ tpc = "returned"
           /\ response.status_code = 200
           /\ ~Truthy(data'.external_notes_url)
           /\ ~data'.has_notes) =>
            /\ pc' = "done"
            /\ outcome' = "error"
            /\ error' = [kind |-> "ValueError: No notes in the response",
                         status_code |-> 0]
            /\ result' = None
            /\ tpc' = "idle"
            /\ pages' = pages
            /\ chunks' = chunks]_vars
    /\ [](error.kind = "ValueError: No notes in the response" =>
            /\ pc = "done"
            /\ outcome = "error"
            /\ result = None
            /\ tpc = "idle"
            /\ ~Truthy(data.external_notes_url)
            /\ ~data.has_notes)

\* the second page of a run was malformed after a page of notes
C17_Witness ==
    /\ error.kind = "ValueError: No notes in the response"
    /\ pages = 2
    /\ notes_data_from_json # <<>>
    /\ ~data.has_notes

\* C18: terminal outcomes.  A get_deck_updates run ends in exactly one of
\* MERGE (a DeckUpdates is returned), CANCELLED (None is returned, nothing
\* raised) and FAIL (an error is raised, nothing returned); before its end
\* it has none of them, the outcome reached does not change, and a run
\* that was called reaches its end when the stream is finite and every
\* request returns or fails.
C18_TerminalOutcomes ==
    /\ [](pc # "done" =>
            /\ outcome = "running"
            /\ result = None
            /\ error.kind = "")
    /\ [](pc = "done" =>
            \/ outcome = "merged" /\ result # None /\ error.kind = ""
            \/ outcome = "cancelled" /\ result = None /\ error.kind = ""
            \/ outcome = "error" /\ result = None /\ error.kind # "")
    /\ [][pc = "done" =>
            /\ pc' = "done"
            /\ outcome' = outcome
            /\ result' = result
            /\ error' = error]_vars
    /\ (pc = "start" ~> pc = "done")

\* a run that ended cancelled after it had accumulated notes
C18_Witness ==
    /\ pc = "done"
    /\ outcome = "cancelled"
    /\ notes_data_from_json # <<>>
    /\ result = None

\* where a note stands in a sequence that holds it once
PositionIn(seq, n) == CHOOSE p \in 1 .. Len(seq) : seq[p] = n

\* C19: merge order.  The notes of the returned DeckUpdates begin with the
\* delta notes, in the order their pages arrived and in the order within
\* each page; what follows are snapshot notes no delta replaces, in the
\* order the snapshot had them; so no delta note comes after a snapshot
\* note.
C19_MergeOrder ==
    Merged =>
        LET D == DeltaNotesOf(chunks)
            S == SnapshotNotesOf(chunks)
            R == result[1].notes
        IN  /\ Len(R) >= Len(D)
            /\ \A i \in 1 .. Len(D) : R[i] = D[i]
            /\ \A i \in (Len(D) + 1) .. Len(R) :
                    /\ R[i] \in Range(S)
                    /\ R[i].ah_nid \notin AhNids(D)
            /\ \A i, j \in (Len(D) + 1) .. Len(R) :
                    i < j => PositionIn(S, R[i]) < PositionIn(S, R[j])

\* two delta pages, the first of two notes, and a snapshot of which one
\* note survives
C19_Witness ==
    /\ Merged
    /\ Len(chunks) = 3
    /\ chunks[1].from_csv
    /\ ~chunks[2].from_csv
    /\ ~chunks[3].from_csv
    /\ Len(chunks[1].notes) = 2
    /\ Len(chunks[2].notes) = 2
    /\ Len(chunks[3].notes) = 1
    /\ [i \in 1 .. 2 |-> chunks[1].notes[i].ah_nid] = <<3, 1>>
    /\ [i \in 1 .. 2 |-> chunks[2].notes[i].ah_nid] = <<1, 2>>
    /\ chunks[3].notes[1].ah_nid = 1
    /\ Len(result[1].notes) = 4
    /\ [i \in 1 .. 4 |-> result[1].notes[i].ah_nid] = <<1, 2, 1, 3>>

\* no chunk of the run so far carries a latest_update
NoneCarried == \A i \in 1 .. Len(chunks) : chunks[i].latest_update = None

\* C20: the watermark is never synthesized.  The latest_update the run
\* holds, and the one it returns, is a value that a chunk of the run
\* carried; a run whose chunks all lack latest_update holds none, is not
\* failed by the comparison of watermarks, and when it completes returns a
\* DeckUpdates whose latest_update is null.
C20_NeverSynthesized ==
    /\ latest_update # None =>
            \E i \in 1 .. Len(chunks) : chunks[i].latest_update = latest_update
    /\ Merged =>
            /\ result[1].latest_update # None =>
                    \E i \in 1 .. Len(chunks) :
                        /\ chunks[i].notes # <<>>
                        /\ chunks[i].latest_update = result[1].latest_update
            /\ NoneCarried => result[1].latest_update = None
    /\ NoneCarried => latest_update = None /\ error.kind # "TypeError"

\* a run of three pages with notes and no latest_update that completed
C20_Witness ==
    /\ Merged
    /\ NoneCarried
    /\ Len(chunks) = 3
    /\ \A i \in 1 .. 3 : chunks[i].notes # <<>>
    /\ result[1].latest_update = <<>>
    /\ result[1].notes # <<>>

\* C21: lazy streaming.  In the deck, media and extension streams a page
\* request is issued only in a step where the consumer asks for a chunk:
\* the first when it starts the stream, the request for page k+1 when it
\* holds the yielded page k of the stream and asks for the next one.  While
\* the consumer holds a chunk no request is in flight, and a consumer that
\* stops after page k causes no further request.
C21_LazyStreaming ==
    /\ [][pages' # pages =>
            /\ pages' = pages + 1
            /\ IF op \in GenOps
               THEN \/ opc = "created" /\ stream_pages' = 1
                    \/ opc = "yielded" /\ stream_pages' = stream_pages + 1
               ELSE /\ op = "get_deck_updates"
                    /\ \/ pc = "start" /\ stream_pages' = 1
                       \/ pc = "yielded" /\ stream_pages' = 1
                            /\ chunk.from_csv
                       \/ pc = "yielded"
                            /\ stream_pages' = stream_pages + 1]_vars
    /\ []((op \in GenOps /\ opc = "yielded") => tpc = "idle")
    /\ []((op = "get_deck_updates" /\ pc = "yielded") => tpc = "idle")
    /\ [][(op_outcome = "closed" \/ pc = "done") =>
            /\ pages' = pages
            /\ tpc' = "idle"]_vars

\* the consumer dropped a media stream after its first page, which had a
\* cursor to a second one
C21_Witness ==
    /\ op = "get_deck_media_updates"
    /\ op_outcome = "closed"
    /\ pages = 1
    /\ data.next # None
    /\ url_suffix # None
    /\ tpc = "idle"

\* the chunks the for loop of get_deck_updates has taken from the generator
\* and dealt with
ChunksDealtWith == Len(chunks) - (IF pc = "yielded" THEN 1 ELSE 0)

\* C22: cancellation check points.  With a should_cancel callback the run
\* calls it once for each chunk the generator delivers, one per page, in
\* the step that takes the chunk, after the page (and for a snapshot page
\* the download) is complete; a call that returns true leaves the notes,
\* the watermark and the protection metadata of the run as they were
\* before the chunk.  The callback is not called while a request or a
\* snapshot download is in flight, and a download in flight ends in a
\* chunk or in an error, never in the cancelled sentinel.
C22_CancelCheckPoints ==
    /\ [](cancel_calls = IF should_cancel THEN ChunksDealtWith ELSE 0)
    /\ [][cancel_calls' # cancel_calls =>
            /\ cancel_calls' = cancel_calls + 1
            /\ pc = "yielded"
            /\ tpc = "idle"
            /\ chunk = chunks[Len(chunks)]
            /\ cancel_seen' =>
                    /\ notes_data_from_csv' = notes_data_from_csv
                    /\ notes_data_from_json' = notes_data_from_json
                    /\ latest_update' = latest_update
                    /\ protected_fields' = protected_fields
                    /\ protected_tags' = protected_tags
                    /\ outcome' = "cancelled"]_vars
    /\ [][(pc = "page" \/ pc = "csv") =>
            /\ outcome' # "cancelled"
            /\ cancel_calls' = cancel_calls]_vars

\* a run cancelled at its third chunk, after a snapshot had been downloaded
\* for its second
C22_Witness ==
    /\ should_cancel
    /\ cancel_seen
    /\ cancel_calls = 3
    /\ Len(chunks) = 3
    /\ chunks[2].from_csv
    /\ chunks[3].notes # <<>>
    /\ outcome = "cancelled"

DownloadMediaRuns == op = "download_media" /\ call.made /\ call.raised = ""

NoBucketError == "ValueError: S3 bucket URL not configured"
NoMediaDirError == "ValueError: local_media_dir_path_cb not configured"

\* C24: configuration missing.  A call of _send_request for S3 on a client
\* without bucket URL raises the configuration error with no attempt made
\* and no request built, so such a client never has an S3 request in
\* flight; the error ends the operation that made the call.  download_media
\* on a client without local-media-directory resolver, or without bucket
\* URL, fails with the configuration error at once: no file is requested
\* and no HTTP request is issued.
C24_ConfigurationMissing ==
    /\ [](texc = NoBucketError =>
            /\ ~Truthy(s3_bucket_url)
            /\ tpc = "raised"
            /\ attempts_log = <<>>
            /\ treq.method = "")
    /\ [](~Truthy(s3_bucket_url) =>
            /\ tpc \in {"attempt", "returned"} => treq.api # "S3"
            /\ pc # "csv" \/ tpc = "raised")
    /\ [][texc = NoBucketError =>
            \/ UNCHANGED <<tpc, texc, opc, pc>>
            \/ /\ op = "get_deck_updates"
               /\ pc' = "done"
               /\ outcome' = "error"
               /\ error'.kind = NoBucketError
            \/ /\ op # "get_deck_updates"
               /\ opc' = "done"
               /\ op_outcome' = "raised"
               /\ op_error'.kind = NoBucketError]_vars
    /\ []((op = "download_media" /\ call.made
            /\ (~local_media_dir_path_cb \/ ~Truthy(s3_bucket_url))) =>
                /\ opc = "done"
                /\ op_outcome = "raised"
                /\ op_error.kind = IF ~local_media_dir_path_cb
                                   THEN NoMediaDirError ELSE NoBucketError
                /\ step = 0
                /\ tpc = "idle"
                /\ ~http_issued)

\* upload_deck failed at its S3 request on a client without bucket URL
C24_Witness ==
    /\ op = "upload_deck"
    /\ ~Truthy(s3_bucket_url)
    /\ op_outcome = "raised"
    /\ op_error.kind = "ValueError: S3 bucket URL not configured"
    /\ step = 2

\* a step of unsubscribe_from_deck that deals with the DELETE's response
UnsubscribeAnswered ==
    /\ op = "unsubscribe_from_deck"
    /\ opc = "request"
    /\ tpc = "returned"
    /\ opc' # opc

\* C25: unsubscribe idempotence.  unsubscribe_from_deck sends one DELETE;
\* it returns when the response has status 204 or 404 and raises the HTTP
\* error of the response for every other status, 200 and 500 included.
\* The outcome of a call depends on nothing an earlier call left behind,
\* so a second call whose DELETE is answered 404 returns as well.
C25_UnsubscribeIdempotence ==
    /\ [][UnsubscribeAnswered =>
            /\ treq.method = "DELETE"
            /\ treq.suffix = <<"/decks/X/subscriptions/">>
            /\ opc' = "done"
            /\ IF response.status_code = 204 \/ response.status_code = 404
               THEN op_outcome' = "returned" /\ op_error'.kind = ""
               ELSE /\ op_outcome' = "raised"
                    /\ op_error' = [kind |-> "NottorneyHTTPError",
                                    status_code |-> response.status_code]]_vars
    /\ []((op = "unsubscribe_from_deck" /\ call.earlier > 0) =>
            /\ call.earlier = 1
            /\ op_outcome = "raised" =>
                    \/ op_error.kind \in {NotAuthenticated, "ConnectionError",
                                          "Timeout", "OtherRequestException"}
                    \/ /\ op_error.kind = "NottorneyHTTPError"
                       /\ op_error.status_code \notin {204, 404})

\* the second call of unsubscribe_from_deck returned
C25_Witness ==
    /\ op = "unsubscribe_from_deck"
    /\ call.earlier = 1
    /\ call.made
    /\ opc = "done"
    /\ op_outcome = "returned"
    /\ http_issued

\* C26: delete normalization.  For a raw note whose deleted flag is truthy
\* the transformed last_update_type is delete whatever the raw one was; for
\* a raw note whose deleted flag is falsy or absent it is the raw value,
\* null when the raw note has null or no last_update_type; every key of
\* the raw note other than the normalized ones is in the transformed note
\* with its raw value, and the transformed note has no other key.
C26_DeleteNormalization ==
    pc = "yielded" =>
        /\ Len(chunk.notes) = Len(data.notes)
        /\ \A i \in 1 .. Len(data.notes) :
            LET raw == data.notes[i]
                out == chunk.notes[i]
                kept == {"deleted", "ankihub_id", "id", "guid"}
                        \cap DOMAIN raw
            IN  /\ DOMAIN out = kept \cup {"fields", "anki_id", "note_id",
                                          "note_type_id", "tags",
                                          "last_update_type"}
                /\ \A k \in kept : out[k] = raw[k]
                /\ out["last_update_type"] =
                        IF "deleted" \in DOMAIN raw
                            /\ raw["deleted"] \in {"True", "1"}
                        THEN "'delete'"
                        ELSE IF "last_update_type" \in DOMAIN raw
                        THEN raw["last_update_type"]
                        ELSE "None"

\* a deleted note whose raw last_update_type said updated_content
C26_Witness ==
    /\ pc = "yielded"
    /\ Len(data.notes) = 1
    /\ "deleted" \in DOMAIN data.notes[1]
    /\ "last_update_type" \in DOMAIN data.notes[1]
    /\ data.notes[1]["deleted"] = "1"
    /\ data.notes[1]["last_update_type"] = "'updated_content'"
    /\ chunk.notes[1]["last_update_type"] = "'delete'"
    /\ "guid" \in DOMAIN chunk.notes[1]

\* the chunks of a log that came after its last snapshot chunk
RECURSIVE SinceSnapshot(_)
SinceSnapshot(log) ==
    IF log = <<>> THEN <<>>
    ELSE IF log[Len(log)].from_csv THEN <<>>
    ELSE Append(SinceSnapshot(SubSeq(log, 1, Len(log) - 1)), log[Len(log)])

\* what a run that was alone returns for the chunks of a log, after C1, C3
\* and C19
AloneResult(log) ==
    LET D == DeltaNotesOf(log)
        S == SnapshotNotesOf(log)
    IN  [notes |-> D \o SelectSeq(S, LAMBDA n : n.ah_nid \notin AhNids(D)),
         latest_update |-> WatermarkOver(log, NotesBearing(log)),
         protected_fields |-> 0, protected_tags |-> 0]

\* C27: independent sync runs.  When two get_deck_updates runs on one
\* client take turns in any order, the notes, the watermark, the cursor,
\* the first-request flag and the progress counter each run holds are those
\* of its own pages alone, and a run that returns a DeckUpdates returns the
\* one a run alone returns for the same pages.
C27_IndependentRuns ==
    \A r \in 1 .. 2 :
        LET own == runs[r].chunks
            last == own[Len(own)]
            fresh == own = <<>> \/ last.from_csv
        IN  /\ runs[r].pc = "loop" =>
                /\ runs[r].notes_data_from_json = DeltaNotesOf(own)
                /\ runs[r].notes_data_from_csv = SnapshotNotesOf(own)
                /\ runs[r].latest_update =
                        WatermarkOver(own, NotesBearing(own))
                /\ runs[r].first_request = fresh
                /\ runs[r].url_suffix =
                        IF fresh THEN Some(<<"/decks/X/updates">>)
                        ELSE last.next
                /\ runs[r].notes_count = Len(DeltaNotesOf(SinceSnapshot(own)))
            /\ runs[r].outcome = "merged" =>
                /\ own # <<>>
                /\ runs[r].result = Some(AloneResult(own))
            /\ runs[r].outcome = "error" =>
                \E i \in NotesBearing(own), j \in NotesBearing(own) :
                    /\ i < j
                    /\ own[i].latest_update # None
                    /\ own[j].latest_update = None

\* both runs merged, each from two pages of its own, with different
\* results
C27_Witness ==
    /\ runs[1].outcome = "merged"
    /\ runs[2].outcome = "merged"
    /\ Len(runs[1].chunks) = 2
    /\ Len(runs[2].chunks) = 2
    /\ runs[1].chunks[1].notes # runs[2].chunks[1].notes
    /\ runs[1].result[1].notes # <<>>
    /\ runs[2].result[1].notes # <<>>
    /\ runs[1].result # runs[2].result

\* the snapshot chunks the generator has yielded
SnapshotChunks == {i \in 1 .. Len(chunks) : chunks[i].from_csv}

\* C28 as stated: a run enters the snapshot branch at most once, so it
\* makes at most one snapshot download and one level of recursion,
\* whatever pages the service returns.
C28_DepthAtMostOne ==
    /\ depth <= 1
    /\ Cardinality(SnapshotChunks) <= 1

\* C28: recursion depth.  Every page that carries external_notes_url takes
\* the snapshot branch, in the stream of the call and in a recursive stream
\* alike: its snapshot is downloaded and, once the chunk is applied, a
\* further level of recursion begins.  The depth is the number of snapshot
\* chunks applied, one less than the number yielded while the latest one
\* is not applied yet or ended the run; it stays at most 1 only when no
\* page of a recursive stream carries external_notes_url.
C28_DepthIsSnapshotCount ==
    /\ [][(/\ pc = "page"
           /\ tpc = "returned"
           /\ response.status_code = 200
           /\ pc' # "page"
           /\ data'.external_notes_url # None) =>
                /\ pc' = "csv"
                /\ depth' = depth]_vars
    /\ [](depth \in {Cardinality(SnapshotChunks),
                     Cardinality(SnapshotChunks) - 1})
    /\ []((pc \in {"page", "csv"}) => depth = Cardinality(SnapshotChunks))
    /\ [](depth > 1 =>
            \E i \in SnapshotChunks : \E j \in SnapshotChunks : i < j)

\* the recursive stream sent a snapshot page again: a second download, a
\* second level
C28_Witness ==
    /\ depth = 2
    /\ Cardinality(SnapshotChunks) = 2
    /\ pc = "page"
    /\ stream_pages = 1
    /\ pages = 3

\* C29 as stated: the transport is the single HTTP invocation point.  No
\* request of any operation (login, get_purchased_decks, get_download_url
\* and download_deck included) is in flight other than through
\* _send_request, so that a connection failure or read timeout of any
\* request is retried.
C29_SingleInvocationPoint ==
    /\ dreq = None
    /\ login_req = None
    /\ opc # "direct"

\* the delta chunks of a log, in order
IsDeltaChunk(c) == ~c.from_csv
DeltaChunksOf(log) == SelectSeq(log, IsDeltaChunk)

\* C30 as stated: delta progress is cumulative.  The i-th call of
\* updates_download_progress_cb receives the number of notes of the first
\* i delta pages of the run, those of the stream of the call and of the
\* recursive streams counted together; the values never decrease; and a
\* run that merges without being cancelled has made one call for each
\* delta page.
C30_CumulativeProgress ==
    LET deltas == DeltaChunksOf(chunks)
    IN  /\ Len(progress_log) <= Len(deltas)
        /\ \A i \in 1 .. Len(progress_log) :
            /\ i <= Len(deltas)
            /\ progress_log[i] = Len(DeltaNotesOf(SubSeq(deltas, 1, i)))
        /\ \A i \in 1 .. Len(progress_log) : \A j \in i .. Len(progress_log) :
            progress_log[i] <= progress_log[j]
        /\ (pc = "done" /\ outcome = "merged" /\ ~cancel_seen) =>
                Len(progress_log) = Len(deltas)

\* held is an initial part of grown
IsPrefixOf(held, grown) ==
    /\ Len(held) <= Len(grown)
    /\ SubSeq(grown, 1, Len(held)) = held

\* the loop body applies the chunk just yielded (lines 474-481 are reached)
AppliesChunk ==
    /\ pc = "yielded"
    /\ chunk.notes # <<>>
    /\ ~cancel_seen'

\* C31: snapshot state is overwritten, delta state is appended.  In every
\* step of a run notes_data_from_json keeps what it held as its initial
\* part, in order; applying a delta chunk appends exactly its notes and
\* leaves notes_data_from_csv alone; applying a snapshot chunk that
\* carries notes makes notes_data_from_csv exactly the notes of that chunk
\* and leaves notes_data_from_json alone.  So the snapshot notes held are
\* those of the latest snapshot chunk with notes, and in the result of a
\* run with several snapshot chunks every note comes from a delta chunk or
\* from the last of those snapshot chunks.
C31_OverwriteAndAppend ==
    /\ [][IsPrefixOf(notes_data_from_json, notes_data_from_json')]_vars
    /\ [][(AppliesChunk /\ chunk.from_csv) =>
            /\ notes_data_from_csv' = chunk.notes
            /\ notes_data_from_json' = notes_data_from_json]_vars
    /\ [][(AppliesChunk /\ ~chunk.from_csv) =>
            /\ notes_data_from_json' = notes_data_from_json \o chunk.notes
            /\ notes_data_from_csv' = notes_data_from_csv]_vars
    /\ []((pc \in {"page", "csv"} \/ Merged) =>
            notes_data_from_csv = SnapshotNotesOf(chunks))
    /\ [](Merged =>
            Range(result[1].notes) \subseteq
                Range(DeltaNotesOf(chunks))
                    \cup Range(SnapshotNotesOf(chunks)))

\* a merged run that applied two snapshot chunks with different notes: the
\* note of the first one is not in the result
C31_Witness ==
    /\ Merged
    /\ Len(chunks) = 3
    /\ chunks[1].from_csv
    /\ chunks[2].from_csv
    /\ chunks[1].notes # <<>>
    /\ chunks[2].notes # <<>>
    /\ \E n \in Range(chunks[1].notes) :
        /\ n \notin Range(chunks[2].notes)
        /\ n \notin Range(result[1].notes)
    /\ notes_data_from_csv = chunks[2].notes

\* C32: snapshot download progress.  With a progress callback and a
\* Content-Length of total > 0 the chunk size is the integer part of
\* min(5% of total, 1 MB); every chunk read but the last has that size;
\* the callback is called once per chunk read, the i-th time with the
\* integer part of i * chunk_size / total * 100, and these values never
\* decrease.  Without Content-Length the chunk size is 8192 and the
\* callback is not called; without a callback nothing is reported.
C32_DownloadProgress ==
    LET d == download
        n == Len(d.reads)
    IN  /\ ~d.progress_cb => d.percents = <<>>
        /\ (d.progress_cb /\ d.total_size = 0) =>
                /\ d.chunk_size = 8192
                /\ d.percents = <<>>
                /\ \A k \in 1 .. n :
                    /\ d.reads[k] <= 8192
                    /\ k < n => d.reads[k] = 8192
        /\ (d.progress_cb /\ d.total_size > 0) =>
                /\ d.chunk_size =
                        Smaller(d.total_size \div 20, 1000000)
                /\ d.i = n
                /\ Len(d.percents) = n
                /\ \A k \in 1 .. n :
                    /\ d.percents[k] =
                            (100 * k * d.chunk_size) \div d.total_size
                    /\ k < n => d.percents[k] <= d.percents[k + 1]
                    /\ (d.chunk_size > 0 /\ k < n) =>
                            d.reads[k] = d.chunk_size
                    /\ d.chunk_size > 0 => d.reads[k] <= d.chunk_size

\* a body of 107 bytes read in 21 chunks of 5 bytes and one of 2: the last
\* value reported is 102
C32_Witness ==
    /\ download.pc = "read"
    /\ download.progress_cb
    /\ download.total_size = 107
    /\ Len(download.percents) = 22
    /\ download.percents[21] = 98
    /\ download.percents[22] = 102
    /\ download.reads[22] = 2
    /\ download.content = 107

\* the accumulators of get_deck_updates (lines 454-458)
Accumulators ==
    <<notes_data_from_csv, notes_data_from_json, latest_update,
      protected_fields, protected_tags>>

\* C33: a chunk without notes changes nothing.  The step in which the loop
\* body deals with a chunk whose notes are empty leaves notes_data_from_csv,
\* notes_data_from_json, latest_update, protected_fields and protected_tags
\* as they were, whatever latest_update and protection metadata the chunk
\* carries, and it consults should_cancel as for any other chunk.
C33_EmptyChunkNoEffect ==
    [][(pc = "yielded" /\ chunk.notes = <<>> /\ pc' # "yielded") =>
            /\ Accumulators' = Accumulators
            /\ cancel_calls' = cancel_calls + (IF should_cancel THEN 1 ELSE 0)
            /\ pc' = "done" =>
                    \/ outcome' = "cancelled"
                    \/ /\ outcome' = "merged"
                       /\ result'[1].latest_update = latest_update
                       /\ result'[1].protected_fields = protected_fields
                       /\ result'[1].protected_tags = protected_tags]_vars

\* after a page with a note, a page without notes that carried a later
\* latest_update and other protection metadata was dealt with without
\* cancellation: the run still holds the values of the first page
C33_Witness ==
    /\ Len(chunks) = 2
    /\ pc = "page"
    /\ cancel_calls = 2
    /\ chunks[1].notes # <<>>
    /\ chunks[2].notes = <<>>
    /\ chunks[1].latest_update = Some(1)
    /\ chunks[2].latest_update = Some(2)
    /\ chunks[2].protected_fields # chunks[1].protected_fields
    /\ latest_update = Some(1)
    /\ protected_fields = chunks[1].protected_fields
    /\ protected_tags = chunks[1].protected_tags
    /\ notes_data_from_json = chunks[1].notes

\* C34: cancellation is first checked after the first page.  should_cancel
\* is not consulted before the generator has yielded its first chunk, so a
\* cancelled run has issued at least one page request; while the snapshot
\* of the first page is being downloaded no check has been made yet, and
\* the chunk of that snapshot is complete when the first check is made.
\* A run cancelled at its first check has issued exactly one page request
\* (and the snapshot download when that page was a snapshot page), and a
\* cancellation at a snapshot chunk ends the run without the request of
\* the recursive stream: no request is in flight, the depth and the count
\* of page requests stay as they were.
C34_FirstCheckAfterFirstPage ==
    /\ []((cancel_calls > 0 \/ cancel_seen \/ outcome = "cancelled") =>
            /\ pages >= 1
            /\ Len(chunks) >= 1)
    /\ []((pc \in {"page", "csv"} /\ Len(chunks) = 0) =>
            /\ cancel_calls = 0
            /\ ~cancel_seen)
    /\ []((outcome = "cancelled" /\ cancel_calls = 1) =>
            /\ pages = 1
            /\ Len(chunks) = 1)
    /\ [][(pc = "yielded" /\ chunk.from_csv /\ cancel_seen') =>
            /\ pc' = "done"
            /\ outcome' = "cancelled"
            /\ tpc' = "idle"
            /\ depth' = depth
            /\ pages' = pages
            /\ stream_pages' = stream_pages]_vars

\* a run cancelled at its first check, which was made at the chunk of a
\* downloaded snapshot: one page request, no recursive stream
C34_Witness ==
    /\ pc = "done"
    /\ outcome = "cancelled"
    /\ cancel_calls = 1
    /\ Len(chunks) = 1
    /\ chunks[1].from_csv
    /\ chunks[1].notes # <<>>
    /\ pages = 1
    /\ depth = 0
    /\ tpc = "idle"

\* the chunks the generator yielded before the latest one
EarlierChunks == SubSeq(chunks, 1, Len(chunks) - 1)

\* C35: nothing happens after cancellation.  The step in which
\* should_cancel returns true ends the run as cancelled with no request in
\* flight; it issues no page request, starts no snapshot download and no
\* recursive stream, and calls no progress callback, so that
\* updates_download_progress_cb has been called for the delta pages before
\* the one at which the cancellation was observed and not for that one.
\* From then on the run takes no step at all.
C35_NothingAfterCancel ==
    /\ [][(cancel_seen' /\ ~cancel_seen) =>
            /\ pc' = "done"
            /\ outcome' = "cancelled"
            /\ tpc' = "idle"
            /\ treq' = treq
            /\ attempts_log' = attempts_log
            /\ pages' = pages
            /\ stream_pages' = stream_pages
            /\ depth' = depth
            /\ chunks' = chunks
            /\ progress_log' = progress_log]_vars
    /\ [](cancel_seen =>
            /\ pc = "done"
            /\ tpc = "idle"
            /\ result = None
            /\ Len(progress_log) <= Len(DeltaChunksOf(EarlierChunks))
            /\ (\A i \in 1 .. Len(chunks) : ~chunks[i].from_csv) =>
                    Len(progress_log) = Len(chunks) - 1
            /\ ~ENABLED Next)

\* a run cancelled at its second delta page, each page with a note and the
\* second with a next link: the callback was called for the first page
\* only, and the request of the third page was not issued
C35_Witness ==
    /\ cancel_seen
    /\ outcome = "cancelled"
    /\ Len(chunks) = 2
    /\ \A i \in 1 .. 2 : ~chunks[i].from_csv /\ Len(chunks[i].notes) = 1
    /\ progress_log = <<1>>
    /\ notes_count = 1
    /\ pages = 2
    /\ data.next # None

\* C36: the token is checked once and read per request.  In a
\* get_deck_updates run the Authorization header of a page request is
\* built when _send_request is entered for it, from the token the client
\* holds at that moment: the Bearer header of that token, no header when
\* the token is absent.  The not-authenticated error is raised at the call
\* only, before any request; a signout or login that happens while the run
\* is under way changes the header of the later requests and never makes
\* the run fail as not authenticated.
C36_TokenReadPerRequest ==
    /\ [][(/\ op = "get_deck_updates"
           /\ treq' # treq
           /\ tpc' = "attempt"
           /\ treq'.api = "NOTTORNEY") =>
                /\ token' = token
                /\ treq'.authorization =
                        IF token # None /\ token[1] # ""
                        THEN Some(<<"Bearer", token[1]>>)
                        ELSE None]_vars
    /\ [][(op = "get_deck_updates" /\ error' # error
                /\ error'.kind = NotAuthenticated) =>
                /\ pc = "start"
                /\ ~Truthy(token)]_vars
    /\ []((op = "get_deck_updates" /\ outcome = "error"
                /\ error.kind = NotAuthenticated) =>
                /\ call.token_absent
                /\ pages = 0)
    /\ []((op = "get_deck_updates" /\ pc # "start" /\ ~call.token_absent) =>
                error.kind # NotAuthenticated)

\* a run that was called with a token and has its second page request in
\* flight after a signout: the request carries no Authorization header
C36_Witness ==
    /\ DeckPageRequestInFlight
    /\ call.made
    /\ ~call.token_absent
    /\ pages = 2
    /\ Len(chunks) = 1
    /\ token = None
    /\ treq.authorization = None
    /\ outcome = "running"

\* a step of login that ends the call: the answer arrived or the request
\* raised
LoginEnds == login_pc = "sent" /\ login_pc' = "idle"

\* a step of signout
SignoutStep ==
    /\ login_pc' = login_pc
    /\ token_writes' = token_writes + 1

\* C37: token writes.  The token changes only in the step of login that
\* receives status 200, which sets it to the access_token of the answer,
\* and in signout, which clears it; a login answered with another status
\* or ended by an exception leaves it as it was, and so does every step of
\* every other operation, whether the operation succeeds or fails.  While
\* the token is absent, as it is from signout until a login answered with
\* 200 and an access_token, a token-requiring operation whose check runs
\* ends with the not-authenticated error without an HTTP request.
C37_TokenWrites ==
    /\ [][token' # token =>
            \/ /\ LoginEnds
               /\ login_status' = 200
               /\ token' \in LoginTokens
            \/ /\ SignoutStep
               /\ token' = None]_vars
    /\ [][(LoginEnds /\ login_status' # 200) => token' = token]_vars
    /\ [][SignoutStep => token' = None]_vars
    /\ [][(<<transportVars, runVars, frameVars, opVars, call,
             http_issued>>' #
           <<transportVars, runVars, frameVars, opVars, call,
             http_issued>>) => token' = token]_vars
    /\ [][(/\ call' # call
           /\ call'.made
           /\ call'.op \in TokenOps \ GenOps
           /\ token = None) =>
                /\ call'.raised = NotAuthenticated
                /\ http_issued' = FALSE
                /\ tpc' = "idle"
                /\ dreq' = None
                /\ IF op = "get_deck_updates"
                   THEN outcome' = "error"
                            /\ error' = Err(NotAuthenticated, 0)
                   ELSE op_outcome' = "raised"
                            /\ op_error' = Err(NotAuthenticated, 0)]_vars
    /\ [][(/\ op \in GenOps
           /\ opc = "created"
           /\ opc' # "created"
           /\ op_outcome' # "closed"
           /\ token = None) =>
                /\ op_outcome' = "raised"
                /\ op_error' = Err(NotAuthenticated, 0)
                /\ http_issued' = FALSE
                /\ tpc' = "idle"]_vars

\* unsubscribe_from_deck returned once, so the client held a token; then
\* signout, the only call made next to the operation, cleared it, and the
\* second call of the operation failed as not authenticated
C37_Witness ==
    /\ op = "unsubscribe_from_deck"
    /\ call.made
    /\ call.earlier = 1
    /\ call.token_absent
    /\ call.raised = NotAuthenticated
    /\ op_outcome = "raised"
    /\ token_writes = 1
    /\ login_pc = "idle"
    /\ login_status = 0
    /\ token = None
    /\ ~http_issued

====
